---- MODULE Spec2Model ----
(***************************************************************************)
(* A model of gstore_fdw.c (PG-Strom GPU store): the hierarchical row-id   *)
(* map, the REDO log (append, rotation, replay) and the MVCC visibility    *)
(* checks.  Each subsystem has its own specification over the shared       *)
(* variables: SpecAlloc, SpecLog, SpecReplay and SpecVis.                     *)
(***************************************************************************)
EXTENDS Integers, Sequences, FiniteSets, TLC

(***************************************************************************)
(* Bounds of the model.                                                    *)
(***************************************************************************)
\* number of backend processes
NProcs == 2
\* allocate/release calls in one behaviour of SpecAlloc
MaxOps == 3
\* capacities (nrooms) of the four depth configurations of the row-id map
Nrooms1 == 5
Nrooms2 == 300
Nrooms3 == 65800
Nrooms4 == 16777500
\* gs_sstate->redo_log_limit, in MAXALIGN units
RedoLogLimit == 5
\* appends one process starts in one behaviour of SpecLog
MaxAppends == 2
\* the values random() draws a redo_mmap_revision from are 0..MaxRevision
MaxRevision == 2
\* the longest record, in MAXALIGN units
MaxRecLen == 2
\* rows of the base file in SpecReplay, and values of its one user column
MaxRows == 2
MaxValue == 2
\* records in the log segment that is replayed, and replays of it
MaxLog == 2
MaxReplays == 2
\* transactions of the host in SpecVis: their ids are 3 .. 2 + NXids
NXids == 3
\* command ids run from 0 to MaxCid
MaxCid == 1
\* rows the table holds when a scan begins; one more may be stored meanwhile
MaxItems == 2
\* calls of GstoreIterateForeignScan and of GstoreReScanForeignScan per scan
MaxScanCalls == 5
MaxReScans == 1
\* hash index of SpecLookup: rows 0 .. HashRooms - 1, keys 1 .. MaxKey, NSlots slots
HashRooms == 2
MaxKey == 2
NSlots == 1
\* registry of SpecRegistry: foreign tables 1 .. NTables of one database, at
\* most MaxOpens calls of gstoreFdwLookupGpuStoreDesc per process
NTables == 2
MaxOpens == 2

Procs == 1..NProcs
\* the row spinlocks the rows of the inserting processes fall upon
NInsertRowLocks == 2
InsertRowLocks == 1..NInsertRowLocks
NoProc == 0
\* the open of a store: units of the mapped log after checkpoint_offset, the
\* largest length field, and the turns of a loop that are followed
OpenLogCells == 3
MaxOpenRecLen == 2
MaxTurns == 4

\* layout of the base file: table sizes, columns of a relation, and the
\* sizes of what is declared outside this file (the header of a
\* kern_data_store and one kern_colmeta, the average width of a
\* variable-length type)
LayoutRooms1 == 1
LayoutRooms2 == 9
LayoutRooms3 == 300
LayoutRooms4 == 70000
LayoutRooms == {LayoutRooms1, LayoutRooms2, LayoutRooms3, LayoutRooms4}
MaxLayoutCols == 2
KdsHeadSz == 64
KdsColmetaSz == 48
TypAvgWidth == 32
PAGE_SIZE == 4096
NAMEDATALEN == 64

\* the inserts: rows of the table they go to, and inserts begun in all
InsRooms == 3
MaxInsertCalls == 2

\* (cl_uint)-1 : TLC integers are 32-bit signed, so the all-ones word is
\* written -1 and every comparison against it goes through ULess.
UINT_MAX == -1

\* unsigned a < b on cl_uint values, with UINT_MAX the largest of them
ULess(a, b) == IF a = UINT_MAX THEN FALSE
               ELSE IF b = UINT_MAX THEN TRUE
               ELSE a < b

VARIABLES
    \* ---- row-id map (GpuStoreRowIdMapHead) ----
    nrooms,          \* rowid_map->nrooms
    bitmap,          \* rowid_map->base[] as the set of its set bits, 64*word+bit
    rowid_map_lock,  \* gs_sstate->rowid_map_lock : the holder, or NoProc
    apc,             \* per process: where it is inside allocate / release
    aarg,            \* per process: the argument of the call in progress
    aret,            \* per process: the value the last call returned
    nops,            \* calls started so far
    held,            \* row-ids handed out by allocate and not released since
    twice,           \* row-ids handed out while already in 'held'
    ains,            \* per process: what the insert did with the row-id it got
    \* ---- REDO log (GpuStoreSharedState, GpuStoreDesc, the log files) ----
    files,           \* every log file ever created: [cells, st], by creation order
    lw_shared,       \* redo_mmap_lock: shared holds per process
    lw_excl,         \* redo_mmap_lock: the exclusive holder, or NoProc
    redo_mmap_revision, \* gs_sstate->redo_mmap_revision
    redo_log_pos,    \* gs_sstate->redo_log_pos
    lpc,             \* per process: where it is inside open / append / switch
    desc_mmap,       \* gs_desc->redo_mmap: the file mapped, or NoFile (NULL)
    desc_revision,   \* gs_desc->redo_mmap_revision
    has_exclusive_lock, \* per process: the local of gstoreFdwAppendRedoLog
    r_len,           \* per process: the length of the record being appended
    r_id,            \* per process: the identity of the record being appended
    old_pos,         \* per process: the local of gstoreFdwAppendRedoLog
    tmp_file,        \* per process: the file __gstoreFdwSwitchRedoLog created
    nappends,        \* appends started so far, per process
    appended,        \* appends that returned: [id, file, pos, len, resfile]
    switched,        \* rotations published: [file, pos, len] of the new log
    insert_row_lock, \* gs_sstate->base_row_lock[] of the inserted rows: the holder
    \* ---- replay (the base file and the log segment that is replayed) ----
    base_mmap,       \* per row-id: the user column and the system column
    redo,            \* the records after checkpoint_offset
    redo_pos,        \* the local of __ApplyRedoLogMain, as an index into redo
    rpc,             \* where the replay is: "idle" or "loop"
    runs,            \* replays that have ended
    after_first,     \* the base file as the first replay left it
    applied,         \* the records the running (or last) replay applied, by index
    raised,          \* the last replay ended in elog(ERROR) or was killed
    \* ---- visibility (one row, the transactions of the host) ----
    sysattr,         \* the row's GstoreFdwSysattr: [xmin, xmax, cid]
    xstatus,         \* per transaction id: "inprogress", "committed", "aborted"
    my_xid,          \* the transaction id of the calling backend
    snapshot,        \* the caller's snapshot: [committed, curcid]
    inserter,        \* the transaction that stored the row (its first xmin)
    deleter,         \* the transaction that deleted the row (its first xmax)
    last,            \* the last check: what was asked and what was returned
    \* ---- sequential scan (GpuStoreFdwState, the row locks) ----
    kds_nitems,      \* kds->nitems of the base file
    row_visible,     \* the row-ids gstoreCheckVisibilityForRead accepts
    base_row_lock,   \* gs_sstate->base_row_lock[]: the holder per lock
    read_pos,        \* *fdw_state->read_pos
    scan_nitems,     \* fdw_state->nitems
    spc,             \* where the scanning backend is inside the call
    scan_rowid,      \* the local rowid of GstoreIterateForeignScan
    examined,        \* row-ids whose visibility was asked since the last reset
    returned,        \* row-ids returned in a slot since the last reset
    ended,           \* a call returned NULL since the last reset
    ncalls,          \* calls of GstoreIterateForeignScan so far
    rescans,         \* calls of GstoreReScanForeignScan so far
    \* ---- primary key lookup (GpuStoreHashIndexHead, the key column) ----
    hash_slots,      \* hash_index->slots[0 .. nslots-1]: the chain heads
    hash_rowmap,     \* hash_index->slots[nslots ..]: the next row-id per row
    row_key,         \* the key column per row: 0 is null
    hash_slot_lock,  \* gs_sstate->hash_slot_lock[]: the locks that are held
    kpc,             \* where the caller of lookupGpuStorePrimaryKey is
    k_key,           \* key_value
    k_rowid,         \* the local rowid of lookupGpuStorePrimaryKey
    k_touched,       \* the indexes used to read a key or a next field
    pk_ret,          \* <<key, row-id>> of the last scan by primary key
    \* ---- registry of shared states (GpuStoreSharedHead, gstore_desc_htab) ----
    sstates,              \* the GpuStoreSharedState objects allocated so far
    gstore_sstate_slot,   \* gstore_shared_head->gstore_sstate_slot[]: chains
    gstore_sstate_lock,   \* gstore_shared_head->gstore_sstate_lock[]: holder, 0 free
    gstore_desc_htab,     \* per process: gs_desc->gs_sstate per table, 0 no entry
    gpc,                  \* per process: where it is in gstoreFdwLookupGpuStoreDesc
    g_frel,               \* per process: the table of the call
    opens,                \* per process: calls made so far
    \* ---- open of a store (gstoreFdwCreateSharedState) ----
    base_signature,       \* base_mmap->signature of the base file
    open_log,             \* the log after checkpoint_offset: [type, length] per unit
    opc,                  \* where gstoreFdwCreateSharedState is; "closed": no shared state
    basefile_is_sanity,   \* the local of gstoreFdwCreateSharedState
    open_pos,             \* the local redo_pos of the two loops
    turns,                \* turns of the loop taken in this open
    napplied,             \* records handed to __ApplyRedoLog* in this open
    open_log_pos,         \* gs_sstate->redo_log_pos of the opened store
    mutated,               \* a row was stored since the base file was created
    \* ---- layout of a base file (gstoreFdwCreateBaseFile / gstoreFdwValidateBaseFile) ----
    tupdesc,              \* the device tuple descriptor: one [attnotnull, attlen, attalign] per column
    max_num_rows,         \* gs_sstate->max_num_rows
    primary_key,          \* gs_sstate->primary_key : a column number, or -1
    base_file,            \* the file as create left it: header fields and size, or NoBaseFile
    validate_ret,          \* what gstoreFdwValidateBaseFile did: "none", "ok" or the elog(ERROR) it raised
    \* ---- insert of a row (GstoreExecForeignInsert) ----
    ins_map,              \* rowid_map->base[] of the table the inserts go to, as the set of its set bits
    ins_base,             \* per row-id: the user column (0: nothing stored) and the system column
    ins_nitems,           \* kds->nitems
    ins_row_lock,         \* gs_sstate->base_row_lock[] of each row: the holder, or NoProc
    ins_log,              \* the INSERT records appended to the REDO log: [rowid, xid]
    ipc,                  \* per process: where it is inside GstoreExecForeignInsert
    i_rowid,              \* per process: the local rowid
    i_next_rowid,         \* per process: gs_mstate->next_rowid
    i_datum,              \* per process: slot->tts_values[] of the insert
    i_oldval,             \* per process: the local oldval of atomicMax32
    i_returned,           \* the row-ids of the inserts that returned the slot
    i_scan,               \* kds->nitems as the scan that began took it (fdw_state->nitems), or <<>>
    i_calls               \* inserts begun so far

allocVars == <<nrooms, bitmap, rowid_map_lock, apc, aarg, aret, nops, held, twice,
               ains>>

logVars == <<files, lw_shared, lw_excl, redo_mmap_revision, redo_log_pos, lpc,
             desc_mmap, desc_revision, has_exclusive_lock, r_len, r_id, old_pos,
             tmp_file, nappends, appended, switched, insert_row_lock>>

replayVars == <<base_mmap, redo, redo_pos, rpc, runs, after_first,
                applied, raised>>

visVars == <<sysattr, xstatus, my_xid, snapshot, inserter, deleter, last>>

scanVars == <<kds_nitems, row_visible, base_row_lock, read_pos, scan_nitems, spc,
              scan_rowid, examined, returned, ended, ncalls, rescans>>

hashVars == <<hash_slots, hash_rowmap, row_key, hash_slot_lock, kpc, k_key, k_rowid,
              k_touched, pk_ret>>

regVars == <<sstates, gstore_sstate_slot, gstore_sstate_lock, gstore_desc_htab, gpc,
             g_frel, opens>>

openVars == <<base_signature, open_log, opc, basefile_is_sanity, open_pos, turns,
              napplied, open_log_pos, mutated>>

layoutVars == <<tupdesc, max_num_rows, primary_key, base_file, validate_ret>>

insVars == <<ins_map, ins_base, ins_nitems, ins_row_lock, ins_log, ipc, i_rowid, i_next_rowid, i_datum, i_oldval, i_returned, i_scan, i_calls>>

vars == <<allocVars, logVars, replayVars, visVars, scanVars, hashVars, regVars,
          openVars,
          layoutVars,
          insVars>>

nonLayoutVars == <<allocVars, logVars, replayVars, visVars, scanVars, hashVars, regVars, openVars,
    insVars>>
nonInsVars == <<allocVars, logVars, replayVars, visVars, scanVars, hashVars, regVars, openVars, layoutVars>>
nonAllocVars == <<logVars, replayVars, visVars, scanVars, hashVars, regVars, openVars,
    layoutVars,
    insVars>>
nonLogVars == <<allocVars, replayVars, visVars, scanVars, hashVars, regVars, openVars,
    layoutVars,
    insVars>>
nonScanVars == <<allocVars, logVars, replayVars, visVars, hashVars, regVars, openVars,
    layoutVars,
    insVars>>
nonHashVars == <<allocVars, logVars, replayVars, visVars, scanVars, regVars, openVars,
    layoutVars,
    insVars>>
nonRegVars == <<allocVars, logVars, replayVars, visVars, scanVars, hashVars, openVars,
    layoutVars,
    insVars>>
nonReplayVars == <<allocVars, logVars, visVars, scanVars, hashVars, regVars, openVars,
    layoutVars,
    insVars>>
nonOpenVars == <<allocVars, logVars, replayVars, visVars, scanVars, hashVars, regVars,
    layoutVars,
    insVars>>
nonVisVars == <<allocVars, logVars, replayVars, scanVars, hashVars, regVars, openVars,
    layoutVars,
    insVars>>

(***************************************************************************)
(* Row-id map: __gstoreFdwAllocateRowId / __gstoreFdwReleaseRowId          *)
(***************************************************************************)
AllWord == 0..63

\* the word base[w] as the set of bit numbers set in it
WordBits(bits, w) == {b \in AllWord : (64 * w + b) \in bits}

\* base[w] |= (1UL << b)
SetBit(bits, w, b) == bits \cup {64 * w + b}

\* base[w] &= ~(1UL << b)
ClearBit(bits, w, b) == bits \ {64 * w + b}

\* __builtin_ffsl(~map) - 1 : the lowest clear bit of a word that is not ~0UL
FirstZero(map) == CHOOSE b \in AllWord \ map : \A c \in AllWord \ map : b <= c

\* a cl_uint as its four bytes, most significant first
Bytes(n) == <<(n \div 16777216) % 256, (n \div 65536) % 256, (n \div 256) % 256, n % 256>>

\* min_id << 8 on a 32-bit cl_uint
Shl8(m) == <<m[2], m[3], m[4], 0>>

ZeroId == <<0, 0, 0, 0>>

\* (1UL << ((min_id >> 24) & 0x3f)) - 1 as a set of bit numbers
MinMask(m) == {b \in AllWord : b < (m[1] % 64)}

\* min_id >> 30
MinStart(m) == m[1] \div 64

NoNext == -1

\* the switch (depth) of __gstoreFdwAllocateRowId: the next level's base, or
\* NoNext when this level is the leaf level
NextLevel(base, n, depth) ==
    CASE depth = 0 -> IF n > 256 THEN base + 4 ELSE NoNext
      [] depth = 1 -> IF n > 65536 THEN base + 4 + 1024 ELSE NoNext
      [] depth = 2 -> IF n > 16777216 THEN base + 4 + 1024 + 262144 ELSE NoNext
      [] OTHER -> NoNext

RECURSIVE AllocLevel(_, _, _, _, _, _)
RECURSIVE AllocWords(_, _, _, _, _)
RECURSIVE AllocRetry(_, _, _, _, _)

\* the body of the for (k...) loop from the label retry on: c is the call's
\* frame [n, depth, offset, wbase, next], map the local copy of base[k].
\* A bit whose block starts at or past nrooms makes the call for the next
\* level return UINT_MAX with no unused row-id at once, and so does every
\* later bit of the word: the retries set each clear bit of map in base[k]
\* and go on to the next word with min_id = 0; they are taken in one step.
AllocRetry(bits, c, k, map, min_id) ==
    IF map = AllWord
    THEN AllocWords(bits, c, k + 1, {}, min_id)
    ELSE LET bit == FirstZero(map)
             rowid == bit + 256 * c.offset + 64 * k
         IN  IF c.next = NoNext
             THEN IF rowid < c.n
                  THEN [rowid |-> rowid, bits |-> SetBit(bits, c.wbase + k, bit)]
                  ELSE [rowid |-> UINT_MAX, bits |-> bits]
             ELSE IF 256 * rowid >= c.n
             THEN AllocWords(bits \cup {64 * (c.wbase + k) + b : b \in AllWord \ map},
                             c, k + 1, {}, ZeroId)
             ELSE LET r == AllocLevel(bits, c.next, c.n, Shl8(min_id), c.depth + 1, rowid)
                      bits2 == IF r.unused THEN r.bits
                               ELSE SetBit(r.bits, c.wbase + k, bit)
                  IN  IF r.rowid = UINT_MAX
                      THEN AllocRetry(bits2, c, k, map \cup {bit}, ZeroId)
                      ELSE [rowid |-> r.rowid, bits |-> bits2]

\* for (k=start; k < 4; k++, mask=0)
AllocWords(bits, c, k, mask, min_id) ==
    IF k >= 4
    THEN [rowid |-> UINT_MAX, bits |-> bits]
    ELSE AllocRetry(bits, c, k, WordBits(bits, c.wbase + k) \cup mask, min_id)

\* __gstoreFdwAllocateRowId(base, nrooms, min_id, depth, offset, &unused)
AllocLevel(bits, base, n, min_id, depth, offset) ==
    IF 256 * offset >= n
    THEN [rowid |-> UINT_MAX, bits |-> bits, unused |-> FALSE]
    ELSE LET c == [n |-> n, depth |-> depth, offset |-> offset,
                   wbase |-> base + 4 * offset,
                   next |-> NextLevel(base, n, depth)]
             r == AllocWords(bits, c, MinStart(min_id), MinMask(min_id), min_id)
         IN  [rowid |-> r.rowid, bits |-> r.bits,
              unused |-> \E k \in 0..3 : WordBits(r.bits, c.wbase + k) # AllWord]

\* the shift gstoreFdwAllocateRowId applies to min_rowid before the call
ShiftMin(n, min_rowid) ==
    IF n <= 256 THEN <<min_rowid % 256, 0, 0, 0>>
    ELSE IF n <= 65536 THEN <<(min_rowid \div 256) % 256, min_rowid % 256, 0, 0>>
    ELSE IF n <= 16777216 THEN Shl8(Bytes(min_rowid))
    ELSE Bytes(min_rowid)

\* gstoreFdwAllocateRowId, the part under rowid_map_lock
AllocateRowId(bits, n, min_rowid) ==
    AllocLevel(bits, 0, n, ShiftMin(n, min_rowid), 0, 0)

\* the word offset of the leaf level as __gstoreFdwReleaseRowId sees it
ReleaseBottom(n) ==
    IF n <= 256 THEN 0
    ELSE IF n <= 65536 THEN 4
    ELSE IF n <= 16777216 THEN 4 + 1024
    ELSE 4 + 1024 + 262144

\* the row-ids whose bit is set in the leaf level, the words from
\* ReleaseBottom(n) on
LeafRowIds(bits, n) ==
    {b - 64 * ReleaseBottom(n) : b \in {c \in bits : c >= 64 * ReleaseBottom(n)}}

\* the summary bits __gstoreFdwReleaseRowId clears with the leaf bit
ReleaseClears(n, rowid) ==
    LET leaf == {64 * (ReleaseBottom(n) + (rowid \div 64)) + (rowid % 64)}
        l3 == {64 * (4 + 1024 + (rowid \div 16384)) + ((rowid \div 256) % 64)}
        l2 == {64 * (4 + (rowid \div 4194304)) + ((rowid \div 65536) % 64)}
        l1 == {64 * (rowid \div 1073741824) + ((rowid \div 16777216) % 64)}
    IN  IF n <= 256 THEN leaf
        ELSE IF n <= 65536
             THEN leaf \cup {64 * (rowid \div 16384) + ((rowid \div 256) % 64)}
        ELSE IF n <= 16777216
             THEN leaf \cup {64 * (rowid \div 4194304) + ((rowid \div 65536) % 64)}
                       \cup {64 * (4 + (rowid \div 16384)) + ((rowid \div 256) % 64)}
        ELSE leaf \cup l1 \cup l2 \cup l3

\* __gstoreFdwReleaseRowId(base, nrooms, rowid)
ReleaseRowId(bits, n, rowid) ==
    IF rowid < n
    THEN IF (64 * (ReleaseBottom(n) + (rowid \div 64)) + (rowid % 64)) \notin bits
         THEN [ok |-> FALSE, bits |-> bits]
         ELSE [ok |-> TRUE, bits |-> bits \ ReleaseClears(n, rowid)]
    ELSE [ok |-> FALSE, bits |-> bits]

(***************************************************************************)
(* SpecAlloc: processes calling gstoreFdwAllocateRowId and                 *)
(* gstoreFdwReleaseRowId on one row-id map.                                *)
(***************************************************************************)
\* the min_rowid and rowid arguments the callers pass
RowIdArgs == {0, 1, 256, 257}
NroomsChoices == {Nrooms1, Nrooms2, Nrooms3, Nrooms4}

RECURSIVE FilledMap(_, _, _)
\* the map after k more calls of gstoreFdwAllocateRowId(gs_sstate, 0), the
\* call GstoreExecForeignInsert makes for every row it stores (the calls are
\* made half by half, the first half evaluated before the second starts; no
\* call leaves the map empty)
FilledMap(m, n, k) ==
    IF k = 0 THEN m
    ELSE IF k = 1
    THEN LET r == AllocateRowId(m.bitmap, n, 0)
         IN  [nrooms |-> n, bitmap |-> r.bits, held |-> m.held \cup {r.rowid}]
    ELSE LET half == FilledMap(m, n, k \div 2)
         IN  IF half.bitmap = {} THEN half ELSE FilledMap(half, n, k - (k \div 2))

\* a map just created: no bit set, no row-id handed out
EmptyMap(n) == [nrooms |-> n, bitmap |-> {}, held |-> {}]

\* the maps a run starts from: a map just created by
\* gstoreFdwCreateSharedState (all zero) for every number of levels, and the
\* one-, two- and three-level maps after the inserts that fill the first
\* 256-slot block or every slot
RowIdMaps ==
    {EmptyMap(n) : n \in NroomsChoices}
        \cup {FilledMap(EmptyMap(Nrooms1), Nrooms1, Nrooms1),
              FilledMap(EmptyMap(Nrooms2), Nrooms2, 256),
              FilledMap(EmptyMap(Nrooms2), Nrooms2, Nrooms2),
              FilledMap(EmptyMap(Nrooms3), Nrooms3, 256)}

\* the same with the row-id compared as a signed number
InsertCallerSigned(rowid, n) == IF rowid < n THEN "lock_row" ELSE "no_room"

\* GstoreExecForeignInsert, from the return of gstoreFdwAllocateRowId to
\* gstoreFdwSpinLockBaseRow: rowid >= kds->nrooms raises the error 'has no
\* room to INSERT any rows', any other row-id goes on to lock the row
InsertCaller(rowid, n) == IF ULess(rowid, n) THEN "lock_row" ELSE "no_room"

\* gstoreFdwAllocateRowId: entry; min_rowid >= nrooms returns UINT_MAX at once
AllocateEnter(p, m) ==
    /\ apc[p] = "idle"
    /\ nops < MaxOps
    /\ nops' = nops + 1
    /\ aarg' = [aarg EXCEPT ![p] = m]
    /\ IF m < nrooms
       THEN /\ apc' = [apc EXCEPT ![p] = "alloc_lock"]
            /\ aret' = aret
            /\ ains' = [ains EXCEPT ![p] = "none"]
       ELSE /\ apc' = apc
            /\ aret' = [aret EXCEPT ![p] = UINT_MAX]
            /\ ains' = [ains EXCEPT ![p] = InsertCaller(UINT_MAX, nrooms)]
    /\ UNCHANGED <<nrooms, bitmap, rowid_map_lock, held, twice>>
    /\ UNCHANGED nonAllocVars

\* SpinLockAcquire(&gs_sstate->rowid_map_lock)
AllocateLock(p) ==
    /\ apc[p] = "alloc_lock"
    /\ rowid_map_lock = NoProc
    /\ rowid_map_lock' = p
    /\ apc' = [apc EXCEPT ![p] = "alloc_run"]
    /\ UNCHANGED <<nrooms, bitmap, aarg, aret, nops, held, twice, ains>>
    /\ UNCHANGED nonAllocVars

\* __gstoreFdwAllocateRowId under the lock
AllocateRun(p) ==
    /\ apc[p] = "alloc_run"
    /\ LET r == AllocateRowId(bitmap, nrooms, aarg[p])
       IN  /\ bitmap' = r.bits
           /\ aret' = [aret EXCEPT ![p] = r.rowid]
           /\ held' = IF r.rowid = UINT_MAX THEN held ELSE held \cup {r.rowid}
           /\ twice' = IF r.rowid # UINT_MAX /\ r.rowid \in held
                       THEN twice \cup {r.rowid} ELSE twice
    /\ apc' = [apc EXCEPT ![p] = "alloc_unlock"]
    /\ UNCHANGED <<nrooms, rowid_map_lock, aarg, nops, ains>>
    /\ UNCHANGED nonAllocVars

\* SpinLockRelease(&gs_sstate->rowid_map_lock); return rowid to the insert
AllocateUnlock(p) ==
    /\ apc[p] = "alloc_unlock"
    /\ rowid_map_lock' = NoProc
    /\ apc' = [apc EXCEPT ![p] = "idle"]
    /\ ains' = [ains EXCEPT ![p] = InsertCaller(aret[p], nrooms)]
    /\ UNCHANGED <<nrooms, bitmap, aarg, aret, nops, held, twice>>
    /\ UNCHANGED nonAllocVars

\* gstoreFdwReleaseRowId: entry
ReleaseEnter(p, r) ==
    /\ apc[p] = "idle"
    /\ nops < MaxOps
    /\ nops' = nops + 1
    /\ aarg' = [aarg EXCEPT ![p] = r]
    /\ apc' = [apc EXCEPT ![p] = "release_lock"]
    /\ ains' = [ains EXCEPT ![p] = "none"]
    /\ UNCHANGED <<nrooms, bitmap, rowid_map_lock, aret, held, twice>>
    /\ UNCHANGED nonAllocVars

\* SpinLockAcquire(&gs_sstate->rowid_map_lock)
ReleaseLock(p) ==
    /\ apc[p] = "release_lock"
    /\ rowid_map_lock = NoProc
    /\ rowid_map_lock' = p
    /\ apc' = [apc EXCEPT ![p] = "release_run"]
    /\ UNCHANGED <<nrooms, bitmap, aarg, aret, nops, held, twice, ains>>
    /\ UNCHANGED nonAllocVars

\* __gstoreFdwReleaseRowId under the lock
ReleaseRun(p) ==
    /\ apc[p] = "release_run"
    /\ LET r == ReleaseRowId(bitmap, nrooms, aarg[p])
       IN  /\ bitmap' = r.bits
           /\ aret' = [aret EXCEPT ![p] = IF r.ok THEN 1 ELSE 0]
           /\ held' = IF r.ok THEN held \ {aarg[p]} ELSE held
    /\ apc' = [apc EXCEPT ![p] = "release_unlock"]
    /\ UNCHANGED <<nrooms, rowid_map_lock, aarg, nops, twice, ains>>
    /\ UNCHANGED nonAllocVars

\* SpinLockRelease(&gs_sstate->rowid_map_lock)
ReleaseUnlock(p) ==
    /\ apc[p] = "release_unlock"
    /\ rowid_map_lock' = NoProc
    /\ apc' = [apc EXCEPT ![p] = "idle"]
    /\ UNCHANGED <<nrooms, bitmap, aarg, aret, nops, held, twice, ains>>
    /\ UNCHANGED nonAllocVars

AllocNext ==
    \/ \E p \in Procs, m \in RowIdArgs : AllocateEnter(p, m)
    \/ \E p \in Procs : AllocateLock(p)
    \/ \E p \in Procs : AllocateRun(p)
    \/ \E p \in Procs : AllocateUnlock(p)
    \/ \E p \in Procs, r \in RowIdArgs : ReleaseEnter(p, r)
    \/ \E p \in Procs : ReleaseLock(p)
    \/ \E p \in Procs : ReleaseRun(p)
    \/ \E p \in Procs : ReleaseUnlock(p)

(***************************************************************************)
(* REDO log: gstoreFdwAppendRedoLog, __gstoreFdwRemapRedoLog,              *)
(* __gstoreFdwSwitchRedoLog, gstoreFdwSetupGpuStoreDesc.  Offsets and      *)
(* lengths are counted in MAXALIGN units (every record length is           *)
(* MAXALIGN'ed).                                                           *)
(***************************************************************************)
\* MAXALIGN(offsetof(GpuStoreRedoLogHead, data)) : 24 bytes
RedoHeadSz == 3

NoFile == 0
Revisions == 0..MaxRevision
RecLens == 1..MaxRecLen
FileCells == 0..(RedoLogLimit - 1)

\* a log file after its header is written (checkpoint_offset = the size of
\* the header) and its blocks are allocated
FreshFile(st) == [cells |-> [i \in FileCells |-> 0], st |-> st,
                  checkpoint_offset |-> RedoHeadSz]

\* the file the logical path gs_sstate->redo_log_file names, or NoFile
PathFile(fs) ==
    IF \E f \in 1..Len(fs) : fs[f].st = "active"
    THEN CHOOSE f \in 1..Len(fs) : fs[f].st = "active"
    ELSE NoFile

\* memcpy((char *)redo_mmap + pos, r_log, len) into file f
CopyRecord(fs, f, pos, len, id) ==
    [fs EXCEPT ![f].cells =
        [i \in FileCells |-> IF pos <= i /\ i < pos + len THEN id ELSE @[i]]]

\* the redo_mmap_lock holds process p has after LWLockRelease
LWLockRelease(p) ==
    IF lw_excl = p
    THEN /\ lw_excl' = NoProc
         /\ lw_shared' = lw_shared
    ELSE /\ lw_excl' = lw_excl
         /\ lw_shared' = [lw_shared EXCEPT ![p] = @ - 1]

\* gstoreFdwSpinUnlockBaseRow of GstoreExecForeignInsert (lines 1277, 1281)
SpinUnlockBaseRow(p) ==
    insert_row_lock' = [l \in InsertRowLocks |->
                           IF insert_row_lock[l] = p THEN NoProc ELSE insert_row_lock[l]]

\* elog(ERROR): the error unwinds the call, PG_CATCH of the insert releases
\* its row lock, and the (sub)transaction abort of the host releases every
\* LWLock the process holds
RaiseError(p) ==
    /\ SpinUnlockBaseRow(p)
    /\ lw_shared' = [lw_shared EXCEPT ![p] = 0]
    /\ lw_excl' = IF lw_excl = p THEN NoProc ELSE lw_excl
    /\ has_exclusive_lock' = [has_exclusive_lock EXCEPT ![p] = FALSE]
    /\ lpc' = [lpc EXCEPT ![p] = "idle"]

\* gstoreFdwLookupGpuStoreDesc -> gstoreFdwSetupGpuStoreDesc, the REDO log
\* part: the shared lock it takes is still held when it returns
SetupGpuStoreDesc(p) ==
    /\ lpc[p] = "idle"
    /\ lw_excl = NoProc
    /\ IF desc_revision[p] # redo_mmap_revision /\ PathFile(files) = NoFile
       THEN /\ RaiseError(p)
            /\ UNCHANGED <<desc_mmap, desc_revision>>
       ELSE /\ lw_shared' = [lw_shared EXCEPT ![p] = @ + 1]
            /\ lpc' = [lpc EXCEPT ![p] = "ready"]
            /\ IF desc_revision[p] # redo_mmap_revision
               THEN /\ desc_mmap' = [desc_mmap EXCEPT ![p] = PathFile(files)]
                    /\ desc_revision' = [desc_revision EXCEPT ![p] = redo_mmap_revision]
               ELSE UNCHANGED <<desc_mmap, desc_revision>>
            /\ UNCHANGED <<lw_excl, has_exclusive_lock, insert_row_lock>>
    /\ UNCHANGED <<files, redo_mmap_revision, redo_log_pos, r_len, r_id, old_pos,
                   tmp_file, nappends, appended, switched>>
    /\ UNCHANGED nonLogVars

\* an error raised and caught inside the running statement (a subtransaction
\* abort of the host): every LWLock of the process is released
LWLockReleaseAll(p) ==
    /\ lpc[p] = "ready"
    /\ lw_shared[p] > 0
    /\ lw_shared' = [lw_shared EXCEPT ![p] = 0]
    /\ UNCHANGED <<files, lw_excl, redo_mmap_revision, redo_log_pos, lpc, desc_mmap,
                   desc_revision, has_exclusive_lock, r_len, r_id, old_pos,
                   tmp_file, nappends, appended, switched>>
    /\ UNCHANGED insert_row_lock
    /\ UNCHANGED nonLogVars

\* GstoreExecForeignInsert takes the spinlock of the row it inserts (line
\* 1240) and, under it, calls gstoreFdwAppendRedoLog (line 1256), its only
\* caller: the record is built (lines 1055-1081)
AppendEnter(p, len) ==
    /\ lpc[p] = "ready"
    /\ nappends[p] < MaxAppends
    /\ \E l \in InsertRowLocks :
          /\ insert_row_lock[l] = NoProc
          /\ insert_row_lock' = [insert_row_lock EXCEPT ![l] = p]
    /\ nappends' = [nappends EXCEPT ![p] = @ + 1]
    /\ r_len' = [r_len EXCEPT ![p] = len]
    /\ r_id' = [r_id EXCEPT ![p] = MaxAppends * (p - 1) + nappends[p] + 1]
    /\ has_exclusive_lock' = [has_exclusive_lock EXCEPT ![p] = FALSE]
    /\ lpc' = [lpc EXCEPT ![p] = "lock_shared"]
    /\ UNCHANGED <<files, lw_shared, lw_excl, redo_mmap_revision, redo_log_pos,
                   desc_mmap, desc_revision, old_pos, tmp_file, appended, switched>>
    /\ UNCHANGED nonLogVars

\* LWLockAcquire(&gs_sstate->redo_mmap_lock, LW_SHARED)
AppendLockShared(p) ==
    /\ lpc[p] = "lock_shared"
    /\ lw_excl = NoProc
    /\ lw_shared' = [lw_shared EXCEPT ![p] = @ + 1]
    /\ lpc' = [lpc EXCEPT ![p] = "retry"]
    /\ UNCHANGED <<files, lw_excl, redo_mmap_revision, redo_log_pos, desc_mmap,
                   desc_revision, has_exclusive_lock, r_len, r_id, old_pos,
                   tmp_file, nappends, appended, switched>>
    /\ UNCHANGED insert_row_lock
    /\ UNCHANGED nonLogVars

\* retry: remap the log when the descriptor has no mapping or another revision
\* (__gstoreFdwRemapRedoLog); pmem_map_file fails when the path names no file
AppendRetry(p) ==
    /\ lpc[p] = "retry"
    /\ IF desc_mmap[p] = NoFile \/ desc_revision[p] # redo_mmap_revision
       THEN IF PathFile(files) = NoFile
            THEN /\ RaiseError(p)
                 /\ desc_mmap' = [desc_mmap EXCEPT ![p] = NoFile]
                 /\ UNCHANGED desc_revision
            ELSE /\ desc_mmap' = [desc_mmap EXCEPT ![p] = PathFile(files)]
                 /\ desc_revision' = [desc_revision EXCEPT ![p] = redo_mmap_revision]
                 /\ lpc' = [lpc EXCEPT ![p] = "read_pos"]
                 /\ UNCHANGED <<lw_shared, lw_excl, has_exclusive_lock, insert_row_lock>>
       ELSE /\ lpc' = [lpc EXCEPT ![p] = "read_pos"]
            /\ UNCHANGED <<lw_shared, lw_excl, has_exclusive_lock, desc_mmap,
                           desc_revision, insert_row_lock>>
    /\ UNCHANGED <<files, redo_mmap_revision, redo_log_pos, r_len, r_id, old_pos,
                   tmp_file, nappends, appended, switched>>
    /\ UNCHANGED nonLogVars

\* old_pos = pg_atomic_read_u64(&redo_log_pos); new_pos = old_pos + r_len; the
\* test new_pos > redo_log_limit and what follows it up to the goto retry
AppendReadPos(p) ==
    /\ lpc[p] = "read_pos"
    /\ old_pos' = [old_pos EXCEPT ![p] = redo_log_pos]
    /\ IF redo_log_pos + r_len[p] > RedoLogLimit
       THEN IF has_exclusive_lock[p]
            THEN /\ lpc' = [lpc EXCEPT ![p] = "switch"]
                 /\ UNCHANGED <<lw_shared, lw_excl>>
            ELSE /\ LWLockRelease(p)
                 /\ lpc' = [lpc EXCEPT ![p] = "lock_exclusive"]
       ELSE /\ lpc' = [lpc EXCEPT ![p] = "cas"]
            /\ UNCHANGED <<lw_shared, lw_excl>>
    /\ UNCHANGED <<files, redo_mmap_revision, redo_log_pos, desc_mmap, desc_revision,
                   has_exclusive_lock, r_len, r_id, tmp_file, nappends, appended,
                   switched>>
    /\ UNCHANGED insert_row_lock
    /\ UNCHANGED nonLogVars

\* LWLockAcquire(&gs_sstate->redo_mmap_lock, LW_EXCLUSIVE); goto retry
AppendLockExclusive(p) ==
    /\ lpc[p] = "lock_exclusive"
    /\ lw_excl = NoProc
    /\ \A q \in Procs : lw_shared[q] = 0
    /\ lw_excl' = p
    /\ has_exclusive_lock' = [has_exclusive_lock EXCEPT ![p] = TRUE]
    /\ lpc' = [lpc EXCEPT ![p] = "retry"]
    /\ UNCHANGED <<files, lw_shared, redo_mmap_revision, redo_log_pos, desc_mmap,
                   desc_revision, r_len, r_id, old_pos, tmp_file, nappends,
                   appended, switched>>
    /\ UNCHANGED insert_row_lock
    /\ UNCHANGED nonLogVars

\* the reservation made with a fetch-and-add of r_len on the position that
\* is there, whatever position the limit was tested on
AppendFetchAdd(p) ==
    /\ lpc[p] = "cas"
    /\ redo_log_pos' = redo_log_pos + r_len[p]
    /\ old_pos' = [old_pos EXCEPT ![p] = redo_log_pos]
    /\ lpc' = [lpc EXCEPT ![p] = "memcpy"]
    /\ UNCHANGED <<files, lw_shared, lw_excl, redo_mmap_revision, desc_mmap,
                   desc_revision, has_exclusive_lock, r_len, r_id,
                   tmp_file, nappends, appended, switched>>
    /\ UNCHANGED insert_row_lock
    /\ UNCHANGED nonLogVars

\* pg_atomic_compare_exchange_u64(&redo_log_pos, &old_pos, new_pos)
AppendCompareExchange(p) ==
    /\ lpc[p] = "cas"
    /\ IF redo_log_pos = old_pos[p]
       THEN /\ redo_log_pos' = old_pos[p] + r_len[p]
            /\ lpc' = [lpc EXCEPT ![p] = "memcpy"]
       ELSE /\ redo_log_pos' = redo_log_pos
            /\ lpc' = [lpc EXCEPT ![p] = "read_pos"]
    /\ UNCHANGED <<files, lw_shared, lw_excl, redo_mmap_revision, desc_mmap,
                   desc_revision, has_exclusive_lock, r_len, r_id, old_pos,
                   tmp_file, nappends, appended, switched>>
    /\ UNCHANGED insert_row_lock
    /\ UNCHANGED nonLogVars

\* memcpy((char *)gs_desc->redo_mmap + old_pos, r_log, r_len)
AppendMemcpy(p) ==
    /\ lpc[p] = "memcpy"
    /\ files' = CopyRecord(files, desc_mmap[p], old_pos[p], r_len[p], r_id[p])
    /\ lpc' = [lpc EXCEPT ![p] = "unlock"]
    /\ UNCHANGED <<lw_shared, lw_excl, redo_mmap_revision, redo_log_pos, desc_mmap,
                   desc_revision, has_exclusive_lock, r_len, r_id, old_pos,
                   tmp_file, nappends, appended, switched>>
    /\ UNCHANGED insert_row_lock
    /\ UNCHANGED nonLogVars

\* LWLockRelease(&gs_sstate->redo_mmap_lock); the append returns, and the
\* insert stores the row and releases its spinlock (lines 1260-1281)
AppendUnlock(p) ==
    /\ lpc[p] = "unlock"
    /\ LWLockRelease(p)
    /\ SpinUnlockBaseRow(p)
    /\ lpc' = [lpc EXCEPT ![p] = "ready"]
    /\ appended' = appended \cup
          {[id |-> r_id[p], file |-> desc_mmap[p], pos |-> old_pos[p],
            len |-> r_len[p], resfile |-> PathFile(files)]}
    /\ UNCHANGED <<files, redo_mmap_revision, redo_log_pos, desc_mmap, desc_revision,
                   has_exclusive_lock, r_len, r_id, old_pos, tmp_file, nappends,
                   switched>>
    /\ UNCHANGED nonLogVars

\* __gstoreFdwSwitchRedoLog: the new file is created, its header written and
\* its blocks allocated (lines 966-988)
SwitchCreate(p) ==
    /\ lpc[p] = "switch"
    /\ files' = Append(files, FreshFile("tmp"))
    /\ tmp_file' = [tmp_file EXCEPT ![p] = Len(files) + 1]
    /\ lpc' = [lpc EXCEPT ![p] = "rename_old"]
    /\ UNCHANGED <<lw_shared, lw_excl, redo_mmap_revision, redo_log_pos, desc_mmap,
                   desc_revision, has_exclusive_lock, r_len, r_id, old_pos,
                   nappends, appended, switched>>
    /\ UNCHANGED insert_row_lock
    /\ UNCHANGED nonLogVars

\* open, __writeFile or posix_fallocate fails: the new file is unlinked
SwitchCreateFail(p) ==
    /\ lpc[p] = "switch"
    /\ RaiseError(p)
    /\ UNCHANGED <<files, redo_mmap_revision, redo_log_pos, desc_mmap, desc_revision,
                   r_len, r_id, old_pos, tmp_file, nappends, appended, switched>>
    /\ UNCHANGED nonLogVars

\* the old mapping is dropped and the old log renamed away (lines 990-1011)
SwitchRenameOld(p) ==
    /\ lpc[p] = "rename_old"
    /\ desc_mmap' = [desc_mmap EXCEPT ![p] = NoFile]
    /\ files' = [f \in 1..Len(files) |->
                    IF files[f].st = "active"
                    THEN [files[f] EXCEPT !.st = "retired"] ELSE files[f]]
    /\ lpc' = [lpc EXCEPT ![p] = "rename_new"]
    /\ UNCHANGED <<lw_shared, lw_excl, redo_mmap_revision, redo_log_pos,
                   desc_revision, has_exclusive_lock, r_len, r_id, old_pos,
                   tmp_file, nappends, appended, switched>>
    /\ UNCHANGED insert_row_lock
    /\ UNCHANGED nonLogVars

\* rename(redo_log_file, old_path) fails: PG_CATCH unlinks the new file
SwitchRenameOldFail(p) ==
    /\ lpc[p] = "rename_old"
    /\ desc_mmap' = [desc_mmap EXCEPT ![p] = NoFile]
    /\ files' = [files EXCEPT ![tmp_file[p]].st = "unlinked"]
    /\ tmp_file' = [tmp_file EXCEPT ![p] = NoFile]
    /\ RaiseError(p)
    /\ UNCHANGED <<redo_mmap_revision, redo_log_pos, desc_revision, r_len, r_id,
                   old_pos, nappends, appended, switched>>
    /\ UNCHANGED nonLogVars

\* rename(tmp_path, redo_log_file) (lines 1012-1015)
SwitchRenameNew(p) ==
    /\ lpc[p] = "rename_new"
    /\ files' = [files EXCEPT ![tmp_file[p]].st = "active"]
    /\ lpc' = [lpc EXCEPT ![p] = "publish"]
    /\ UNCHANGED <<lw_shared, lw_excl, redo_mmap_revision, redo_log_pos, desc_mmap,
                   desc_revision, has_exclusive_lock, r_len, r_id, old_pos,
                   tmp_file, nappends, appended, switched>>
    /\ UNCHANGED insert_row_lock
    /\ UNCHANGED nonLogVars

\* the same failure after the write position was reset for the new file
\* ahead of the rename
SwitchRenameNewFailPosReset(p) ==
    /\ lpc[p] = "rename_new"
    /\ files' = [files EXCEPT ![tmp_file[p]].st = "unlinked"]
    /\ tmp_file' = [tmp_file EXCEPT ![p] = NoFile]
    /\ redo_log_pos' = RedoHeadSz
    /\ RaiseError(p)
    /\ UNCHANGED <<redo_mmap_revision, desc_mmap, desc_revision,
                   r_len, r_id, old_pos, nappends, appended, switched>>
    /\ UNCHANGED nonLogVars

\* rename(tmp_path, redo_log_file) fails: PG_CATCH unlinks the new file
SwitchRenameNewFail(p) ==
    /\ lpc[p] = "rename_new"
    /\ files' = [files EXCEPT ![tmp_file[p]].st = "unlinked"]
    /\ tmp_file' = [tmp_file EXCEPT ![p] = NoFile]
    /\ RaiseError(p)
    /\ UNCHANGED <<redo_mmap_revision, redo_log_pos, desc_mmap, desc_revision,
                   r_len, r_id, old_pos, nappends, appended, switched>>
    /\ UNCHANGED nonLogVars

\* the new revision is published and the write position is left where the
\* old log ended
SwitchPublishKeepPos(p, revision) ==
    /\ lpc[p] = "publish"
    /\ revision # UINT_MAX
    /\ revision # redo_mmap_revision
    /\ redo_mmap_revision' = revision
    /\ switched' = Append(switched, [file |-> tmp_file[p], pos |-> redo_log_pos,
                                     len |-> r_len[p]])
    /\ tmp_file' = [tmp_file EXCEPT ![p] = NoFile]
    /\ lpc' = [lpc EXCEPT ![p] = "retry"]
    /\ UNCHANGED <<files, lw_shared, lw_excl, desc_mmap, desc_revision, redo_log_pos,
                   has_exclusive_lock, r_len, r_id, old_pos, nappends, appended>>
    /\ UNCHANGED insert_row_lock
    /\ UNCHANGED nonLogVars

\* a new revision is drawn with random() and the write position is reset
\* (lines 1017-1026); goto retry
SwitchPublish(p, revision) ==
    /\ lpc[p] = "publish"
    /\ revision # UINT_MAX
    /\ revision # redo_mmap_revision
    /\ redo_mmap_revision' = revision
    /\ switched' = Append(switched, [file |-> tmp_file[p], pos |-> redo_log_pos,
                                     len |-> r_len[p]])
    /\ redo_log_pos' = RedoHeadSz
    /\ tmp_file' = [tmp_file EXCEPT ![p] = NoFile]
    /\ lpc' = [lpc EXCEPT ![p] = "retry"]
    /\ UNCHANGED <<files, lw_shared, lw_excl, desc_mmap, desc_revision,
                   has_exclusive_lock, r_len, r_id, old_pos, nappends, appended>>
    /\ UNCHANGED insert_row_lock
    /\ UNCHANGED nonLogVars

\* the steps a process takes once it is inside a call
LogStep(p) ==
    \/ AppendLockShared(p)
    \/ AppendRetry(p)
    \/ AppendReadPos(p)
    \/ AppendLockExclusive(p)
    \/ AppendCompareExchange(p)
    \/ AppendMemcpy(p)
    \/ AppendUnlock(p)
    \/ SwitchCreate(p)
    \/ SwitchRenameOld(p)
    \/ SwitchRenameNew(p)
    \/ \E revision \in Revisions : SwitchPublish(p, revision)

\* the calls the host makes, and the failures of the file system
LogCall(p) ==
    \/ SetupGpuStoreDesc(p)
    \/ LWLockReleaseAll(p)
    \/ \E len \in RecLens : AppendEnter(p, len)
    \/ SwitchCreateFail(p)
    \/ SwitchRenameOldFail(p)
    \/ SwitchRenameNewFail(p)

LogNext == \E p \in Procs : LogStep(p) \/ LogCall(p)

(***************************************************************************)
(* Replay of the REDO log into the base file: __ApplyRedoLogMain and the   *)
(* three __ApplyRedoLog* routines.  The base file has one fixed-width user *)
(* column and the system column (GstoreFdwSysattr) per row.                *)
(***************************************************************************)
InvalidTransactionId == 0
FrozenTransactionId == 2
FirstNormalTransactionId == 3

Rows == 0..(MaxRows - 1)
Values == 1..MaxValue

\* the transaction that stored the rows the base file starts with, and the
\* transaction and command the records of the log carry
BaseXid == FirstNormalTransactionId
LogXid == FirstNormalTransactionId + 1
LogCid == 1

\* a row no INSERT has reached: the user column and the system column are null
EmptyRow == [isnull |-> TRUE, val |-> 0, sysnull |-> TRUE,
             xmin |-> InvalidTransactionId, xmax |-> InvalidTransactionId, cid |-> 0]

\* a row an INSERT of BaseXid stored
StoredRow == [isnull |-> FALSE, val |-> 1, sysnull |-> FALSE,
              xmin |-> BaseXid, xmax |-> InvalidTransactionId, cid |-> 0]

\* the datum of the user column a record carries: null, or a value
Datums == {[isnull |-> TRUE, val |-> 0]} \cup
          {[isnull |-> FALSE, val |-> v] : v \in Values}

\* GstoreTxLogRow records; update_mask set means "column is not updated"
InsertLogs == {[type |-> "INSERT", rowid |-> r, oldid |-> 0, xid |-> LogXid,
                cid |-> LogCid, datum |-> d, update_mask |-> FALSE] :
                  r \in Rows, d \in Datums}
UpdateLogs == {[type |-> "UPDATE", rowid |-> r, oldid |-> o, xid |-> LogXid,
                cid |-> LogCid, datum |-> d, update_mask |-> m] :
                  r \in Rows, o \in Rows, d \in Datums, m \in BOOLEAN}
DeleteLogs == {[type |-> "DELETE", rowid |-> r, oldid |-> 0, xid |-> LogXid,
                cid |-> LogCid, datum |-> [isnull |-> TRUE, val |-> 0],
                update_mask |-> FALSE] : r \in Rows}
\* a COMMIT record, and bytes that carry no known tag (the end of the log)
OtherLogs == {[type |-> t, rowid |-> 0, oldid |-> 0, xid |-> LogXid,
               cid |-> LogCid, datum |-> [isnull |-> TRUE, val |-> 0],
               update_mask |-> FALSE] : t \in {"COMMIT", "END"}}
TxLogs == InsertLogs \cup UpdateLogs \cup DeleteLogs \cup OtherLogs

\* KDS_store_datum_column of the user column at row r
StoreColumn(b, r, d) == [b EXCEPT ![r].isnull = d.isnull, ![r].val = d.val]

\* KDS_fetch_datum_column of the user column at row r
FetchColumn(b, r) == [isnull |-> b[r].isnull, val |-> b[r].val]

\* __ApplyRedoLogInsert: the user column, then a new system column
ApplyRedoLogInsert(b, r_log) ==
    [StoreColumn(b, r_log.rowid, r_log.datum) EXCEPT
        ![r_log.rowid].sysnull = FALSE,
        ![r_log.rowid].xmin = r_log.xid,
        ![r_log.rowid].xmax = InvalidTransactionId,
        ![r_log.rowid].cid = r_log.cid]

\* __ApplyRedoLogUpdate, lines 2489-2503: the user column of the row
\* r_log->rowid, taken from the row oldid when the mask bit is set
UpdateColumns(b, r_log) ==
    StoreColumn(b, r_log.rowid,
                IF r_log.update_mask THEN FetchColumn(b, r_log.oldid)
                ELSE r_log.datum)

\* __ApplyRedoLogUpdate, lines 2504-2511: xmax and cid of the system column
\* fetched at r_log->rowid
UpdateOldattr(b, r_log) ==
    [b EXCEPT ![r_log.rowid].xmax = r_log.xid, ![r_log.rowid].cid = r_log.cid]

\* __ApplyRedoLogUpdate, lines 2513-2520: xmin and cid of the system column
\* fetched at oldid
UpdateSysattr(b, r_log) ==
    [b EXCEPT ![r_log.oldid].xmin = r_log.xid, ![r_log.oldid].cid = r_log.cid]

\* __ApplyRedoLogUpdate: [ok, base]; ok is FALSE when elog(ERROR) is raised,
\* and base holds what had been stored by then
ApplyRedoLogUpdate(b, r_log) ==
    LET b1 == UpdateColumns(b, r_log)
        b2 == UpdateOldattr(b1, r_log)
    IN  IF b1[r_log.rowid].sysnull THEN [ok |-> FALSE, base |-> b1]
        ELSE IF b2[r_log.oldid].sysnull THEN [ok |-> FALSE, base |-> b2]
        ELSE [ok |-> TRUE, base |-> UpdateSysattr(b2, r_log)]

\* __ApplyRedoLogDelete: xmax and cid of the system column; the null flag of
\* the fetch is not tested, so on a row without a system column the stores
\* go through the null pointer the fetch returned and the process is killed
ApplyRedoLogDelete(b, r_log) ==
    IF b[r_log.rowid].sysnull THEN [ok |-> FALSE, base |-> b]
    ELSE [ok |-> TRUE,
          base |-> [b EXCEPT ![r_log.rowid].xmax = r_log.xid,
                             ![r_log.rowid].cid = r_log.cid]]

\* the base files and log segments a replay starts from
BaseFiles == [Rows -> {EmptyRow, StoredRow}]
RedoLogs == [1..MaxLog -> TxLogs]

\* the record at redo_pos, when the loop test of line 2580 lets it be read
AtRecord(t) ==
    /\ rpc = "loop"
    /\ redo_pos <= Len(redo)
    /\ redo[redo_pos].type = t

\* __ApplyRedoLogMain returns or raises: the replay has ended
ReplayReturns(b, err) ==
    /\ base_mmap' = b
    /\ rpc' = "idle"
    /\ runs' = runs + 1
    /\ after_first' = IF runs = 0 THEN b ELSE after_first
    /\ raised' = err
    /\ UNCHANGED <<redo, redo_pos>>

\* gstoreFdwApplyRedoLog -> __ApplyRedoLogMain: the files are mapped and
\* redo_pos = redo_mmap->checkpoint_offset
ReplayStart ==
    /\ rpc = "idle"
    /\ runs < MaxReplays
    /\ rpc' = "loop"
    /\ redo_pos' = 1
    /\ applied' = <<>>
    /\ raised' = FALSE
    /\ UNCHANGED <<base_mmap, redo, runs, after_first>>
    /\ UNCHANGED nonReplayVars

\* one turn of the loop on an INSERT record
ReplayInsert ==
    /\ AtRecord("INSERT")
    /\ base_mmap' = ApplyRedoLogInsert(base_mmap, redo[redo_pos])
    /\ redo_pos' = redo_pos + 1
    /\ applied' = Append(applied, redo_pos)
    /\ UNCHANGED <<redo, rpc, runs, after_first, raised>>
    /\ UNCHANGED nonReplayVars

\* one turn of the loop on an UPDATE record
ReplayUpdate ==
    /\ AtRecord("UPDATE")
    /\ LET r == ApplyRedoLogUpdate(base_mmap, redo[redo_pos])
       IN  IF r.ok
           THEN /\ base_mmap' = r.base
                /\ redo_pos' = redo_pos + 1
                /\ UNCHANGED <<redo, rpc, runs, after_first, raised>>
           ELSE ReplayReturns(r.base, TRUE)
    /\ applied' = Append(applied, redo_pos)
    /\ UNCHANGED nonReplayVars

\* one turn of the loop on a DELETE record
ReplayDelete ==
    /\ AtRecord("DELETE")
    /\ LET r == ApplyRedoLogDelete(base_mmap, redo[redo_pos])
       IN  IF r.ok
           THEN /\ base_mmap' = r.base
                /\ redo_pos' = redo_pos + 1
                /\ UNCHANGED <<redo, rpc, runs, after_first, raised>>
           ELSE ReplayReturns(r.base, TRUE)
    /\ applied' = Append(applied, redo_pos)
    /\ UNCHANGED nonReplayVars

\* one turn of the loop on a COMMIT record: it is skipped
ReplayCommit ==
    /\ AtRecord("COMMIT")
    /\ redo_pos' = redo_pos + 1
    /\ UNCHANGED <<base_mmap, redo, rpc, runs, after_first, applied, raised>>
    /\ UNCHANGED nonReplayVars

\* the same loop end, taken at a COMMIT record as well
ReplayEndAtCommit ==
    /\ rpc = "loop"
    /\ IF redo_pos <= Len(redo) THEN redo[redo_pos].type \in {"END", "COMMIT"}
       ELSE TRUE
    /\ ReplayReturns(base_mmap, FALSE)
    /\ UNCHANGED applied
    /\ UNCHANGED nonReplayVars

\* the loop ends at the end of the mapped log or at a record with no known
\* tag; __rebuildRowIdMap and __rebuildHashIndex do nothing
ReplayEnd ==
    /\ rpc = "loop"
    /\ IF redo_pos <= Len(redo) THEN redo[redo_pos].type = "END" ELSE TRUE
    /\ ReplayReturns(base_mmap, FALSE)
    /\ UNCHANGED applied
    /\ UNCHANGED nonReplayVars

ReplayNext ==
    \/ ReplayStart
    \/ ReplayInsert
    \/ ReplayUpdate
    \/ ReplayDelete
    \/ ReplayCommit
    \/ ReplayEnd

(***************************************************************************)
(* MVCC visibility of one row: __gstoreCheckVisibilityForRead and          *)
(* gstoreCheckVisibilityForWrite, with the transaction manager of the host *)
(* as a status per transaction id.                                         *)
(***************************************************************************)
Xids == FirstNormalTransactionId..(FirstNormalTransactionId + NXids - 1)
XidValues == {InvalidTransactionId, FrozenTransactionId} \cup Xids
Cids == 0..MaxCid
Sysattrs == [xmin : XidValues, xmax : XidValues, cid : Cids]

\* the host's TransactionIdIsCurrentTransactionId
TransactionIdIsCurrentTransactionId(xid) == xid = my_xid

\* the host's TransactionIdDidCommit: the frozen id counts as committed, the
\* invalid id as aborted
TransactionIdDidCommit(xid) ==
    \/ xid = FrozenTransactionId
    \/ xid \in Xids /\ xstatus[xid] = "committed"

\* the host's TransactionIdIsInProgress
TransactionIdIsInProgress(xid) == xid \in Xids /\ xstatus[xid] = "inprogress"

\* the host's TransactionIdPrecedes: ids that are not normal compare as
\* unsigned numbers, normal ids modulo 2^32, which on ids this small is <
TransactionIdPrecedes(id1, id2) == id1 < id2

\* 'return v' and 'fall through' of the first half of a check
Return(v, sa) == [done |-> TRUE, ret |-> v, sysattr |-> sa]
Through(sa) == [done |-> FALSE, ret |-> FALSE, sysattr |-> sa]

\* ReadXmin with the inserter's TransactionIdIsInProgress test (lines 475-479)
\* left out: a row stored by a running transaction is taken as committed
ReadXminNoProgressTest(sa, curr_cid) ==
    IF sa.xmin # FrozenTransactionId
    THEN IF TransactionIdIsCurrentTransactionId(sa.xmin)
         THEN IF sa.cid >= curr_cid THEN Return(FALSE, sa)
              ELSE IF sa.xmax = InvalidTransactionId THEN Return(TRUE, sa)
              ELSE IF sa.xmax = FrozenTransactionId THEN Return(FALSE, sa)
              ELSE IF ~TransactionIdIsCurrentTransactionId(sa.xmax)
                   THEN Return(TRUE, sa)
              ELSE Through(sa)
         ELSE IF TransactionIdDidCommit(sa.xmin)
              THEN Through([sa EXCEPT !.xmin = FrozenTransactionId])
         ELSE IF TransactionIdIsInProgress(sa.xmin)
              THEN Through(sa)
         ELSE Return(FALSE, [sa EXCEPT !.xmin = InvalidTransactionId])
    ELSE Through(sa)

\* ReadXmin with 'sysattr->cid > curr_cid' for the test of line 461: a row
\* the caller stored in the running command is taken as stored before it
ReadXminSameCommand(sa, curr_cid) ==
    IF sa.xmin # FrozenTransactionId
    THEN IF TransactionIdIsCurrentTransactionId(sa.xmin)
         THEN IF sa.cid > curr_cid THEN Return(FALSE, sa)
              ELSE IF sa.xmax = InvalidTransactionId THEN Return(TRUE, sa)
              ELSE IF sa.xmax = FrozenTransactionId THEN Return(FALSE, sa)
              ELSE IF ~TransactionIdIsCurrentTransactionId(sa.xmax)
                   THEN Return(TRUE, sa)
              ELSE Through(sa)
         ELSE IF TransactionIdDidCommit(sa.xmin)
              THEN Through([sa EXCEPT !.xmin = FrozenTransactionId])
         ELSE IF TransactionIdIsInProgress(sa.xmin)
              THEN Return(FALSE, sa)
         ELSE Return(FALSE, [sa EXCEPT !.xmin = InvalidTransactionId])
    ELSE Through(sa)

\* __gstoreCheckVisibilityForRead, lines 457-486: the inserter
ReadXmin(sa, curr_cid) ==
    IF sa.xmin # FrozenTransactionId
    THEN IF TransactionIdIsCurrentTransactionId(sa.xmin)
         THEN IF sa.cid >= curr_cid THEN Return(FALSE, sa)
              ELSE IF sa.xmax = InvalidTransactionId THEN Return(TRUE, sa)
              ELSE IF sa.xmax = FrozenTransactionId THEN Return(FALSE, sa)
              ELSE IF ~TransactionIdIsCurrentTransactionId(sa.xmax)
                   THEN Return(TRUE, sa)
              ELSE Through(sa)
         ELSE IF TransactionIdDidCommit(sa.xmin)
              THEN Through([sa EXCEPT !.xmin = FrozenTransactionId])
         ELSE IF TransactionIdIsInProgress(sa.xmin)
              THEN Return(FALSE, sa)
         ELSE Return(FALSE, [sa EXCEPT !.xmin = InvalidTransactionId])
    ELSE Through(sa)

\* __gstoreCheckVisibilityForRead, lines 487-516: the deleter
ReadXmax(sa, curr_cid) ==
    IF sa.xmax = InvalidTransactionId THEN [ret |-> TRUE, sysattr |-> sa]
    ELSE IF sa.xmax # FrozenTransactionId
    THEN IF TransactionIdIsCurrentTransactionId(sa.xmax)
         THEN [ret |-> sa.cid >= curr_cid, sysattr |-> sa]
         ELSE IF TransactionIdIsInProgress(sa.xmax)
              THEN [ret |-> TRUE, sysattr |-> sa]
         ELSE IF TransactionIdDidCommit(sa.xmax)
              THEN [ret |-> FALSE,
                    sysattr |-> [sa EXCEPT !.xmax = FrozenTransactionId]]
         ELSE [ret |-> FALSE,
               sysattr |-> [sa EXCEPT !.xmax = InvalidTransactionId]]
    ELSE [ret |-> FALSE, sysattr |-> sa]

\* __gstoreCheckVisibilityForRead(sysattr, curr_cid): what it returns and
\* what it leaves in *sysattr
CheckVisibilityForRead(sa, curr_cid) ==
    LET a == ReadXmin(sa, curr_cid)
    IN  IF a.done THEN [ret |-> a.ret, sysattr |-> a.sysattr]
        ELSE ReadXmax(a.sysattr, curr_cid)

\* gstoreCheckVisibilityForWrite, lines 558-580: the inserter
WriteXmin(sa) ==
    IF sa.xmin # FrozenTransactionId
    THEN IF sa.xmin = InvalidTransactionId THEN Return(TRUE, sa)
         ELSE IF TransactionIdIsCurrentTransactionId(sa.xmin)
              THEN Return(FALSE, sa)
         ELSE IF TransactionIdIsInProgress(sa.xmin)
              THEN Return(FALSE, sa)
         ELSE IF TransactionIdDidCommit(sa.xmin)
              THEN Through([sa EXCEPT !.xmin = FrozenTransactionId])
         ELSE Return(TRUE, [sa EXCEPT !.xmin = InvalidTransactionId])
    ELSE Through(sa)

\* WriteXmax with the test of line 582 ('row still lives') left out: a row
\* with no deleter goes on to the comparison with oldestXmin
WriteXmaxNoLiveTest(sa, oldestXmin) ==
    IF sa.xmax # InvalidTransactionId /\ sa.xmax # FrozenTransactionId
          /\ TransactionIdIsInProgress(sa.xmax)
    THEN [ret |-> FALSE, sysattr |-> sa]
    ELSE IF sa.xmax # InvalidTransactionId /\ sa.xmax # FrozenTransactionId
               /\ ~TransactionIdDidCommit(sa.xmax)
    THEN [ret |-> FALSE, sysattr |-> [sa EXCEPT !.xmax = InvalidTransactionId]]
    ELSE LET sb == IF sa.xmax # FrozenTransactionId
                   THEN [sa EXCEPT !.xmax = InvalidTransactionId]
                   ELSE sa
         IN  [ret |-> TransactionIdPrecedes(sb.xmax, oldestXmin), sysattr |-> sb]

\* gstoreCheckVisibilityForWrite, lines 581-604: the deleter and oldestXmin
WriteXmax(sa, oldestXmin) ==
    IF sa.xmax = InvalidTransactionId THEN [ret |-> FALSE, sysattr |-> sa]
    ELSE IF sa.xmax # FrozenTransactionId /\ TransactionIdIsInProgress(sa.xmax)
    THEN [ret |-> FALSE, sysattr |-> sa]
    ELSE IF sa.xmax # FrozenTransactionId /\ ~TransactionIdDidCommit(sa.xmax)
    THEN [ret |-> FALSE, sysattr |-> [sa EXCEPT !.xmax = InvalidTransactionId]]
    ELSE LET sb == IF sa.xmax # FrozenTransactionId
                   THEN [sa EXCEPT !.xmax = InvalidTransactionId]
                   ELSE sa
         IN  [ret |-> TransactionIdPrecedes(sb.xmax, oldestXmin), sysattr |-> sb]

\* gstoreCheckVisibilityForWrite(gs_desc, rowid, oldestXmin) on the row's
\* system column
CheckVisibilityForWrite(sa, oldestXmin) ==
    LET a == WriteXmin(sa)
    IN  IF a.done THEN [ret |-> a.ret, sysattr |-> a.sysattr]
        ELSE WriteXmax(a.sysattr, oldestXmin)

\* the record of a visibility check: the system column and the transaction
\* statuses it ran on, its arguments, and what it returned
NoCheck == [op |-> "none", pre |-> [xmin |-> 0, xmax |-> 0, cid |-> 0],
            ret |-> FALSE, status |-> [x \in Xids |-> "inprogress"],
            committed |-> {}, curcid |-> 0, oldest |-> 0]

\* the values GetOldestXmin may have returned when the statement began: no
\* transaction that is still running has an id before it
OldestXmins == {o \in Xids \cup {FirstNormalTransactionId + NXids} :
                  \A x \in Xids : xstatus[x] = "inprogress" => o <= x}

\* another backend commits its transaction
XactCommit(xid) ==
    /\ xid # my_xid
    /\ xstatus[xid] = "inprogress"
    /\ xstatus' = [xstatus EXCEPT ![xid] = "committed"]
    /\ UNCHANGED <<sysattr, my_xid, snapshot, inserter, deleter, last>>
    /\ UNCHANGED nonVisVars

\* another backend aborts its transaction
XactAbort(xid) ==
    /\ xid # my_xid
    /\ xstatus[xid] = "inprogress"
    /\ xstatus' = [xstatus EXCEPT ![xid] = "aborted"]
    /\ UNCHANGED <<sysattr, my_xid, snapshot, inserter, deleter, last>>
    /\ UNCHANGED nonVisVars

\* the calling backend takes a snapshot for a statement with command id cid
GetSnapshot(cid) ==
    /\ snapshot' = [committed |-> {x \in Xids : xstatus[x] = "committed"},
                    curcid |-> cid]
    /\ snapshot' # snapshot
    /\ UNCHANGED <<sysattr, xstatus, my_xid, inserter, deleter, last>>
    /\ UNCHANGED nonVisVars

\* gstoreCheckVisibilityForRead(gs_desc, rowid, snapshot, NULL) under the
\* row lock (GstoreIterateForeignScan)
ReadRow ==
    /\ LET r == CheckVisibilityForRead(sysattr, snapshot.curcid)
       IN  /\ sysattr' = r.sysattr
           /\ last' = [op |-> "read", pre |-> sysattr, ret |-> r.ret,
                       status |-> xstatus, committed |-> snapshot.committed,
                       curcid |-> snapshot.curcid, oldest |-> 0]
    /\ UNCHANGED <<xstatus, my_xid, snapshot, inserter, deleter>>
    /\ UNCHANGED nonVisVars

\* gstoreCheckVisibilityForWrite(gs_desc, rowid, gs_mstate->oldestXmin) under
\* the row lock (GstoreExecForeignInsert)
WriteRow(oldestXmin) ==
    /\ oldestXmin \in OldestXmins
    /\ LET r == CheckVisibilityForWrite(sysattr, oldestXmin)
       IN  /\ sysattr' = r.sysattr
           /\ last' = [op |-> "write", pre |-> sysattr, ret |-> r.ret,
                       status |-> xstatus, committed |-> snapshot.committed,
                       curcid |-> snapshot.curcid, oldest |-> oldestXmin]
    /\ UNCHANGED <<xstatus, my_xid, snapshot, inserter, deleter>>
    /\ UNCHANGED nonVisVars

\* GstoreExecForeignInsert on this row: the write check under the row lock
\* returned true, the logs were appended, and the system column is stored
\* with the caller's transaction id and GetCurrentCommandId
InsertRow(oldestXmin) ==
    /\ oldestXmin \in OldestXmins
    /\ CheckVisibilityForWrite(sysattr, oldestXmin).ret
    /\ sysattr' = [xmin |-> my_xid, xmax |-> InvalidTransactionId,
                   cid |-> snapshot.curcid]
    /\ inserter' = my_xid
    /\ deleter' = InvalidTransactionId
    /\ last' = [op |-> "insert", pre |-> sysattr, ret |-> TRUE,
                status |-> xstatus, committed |-> snapshot.committed,
                curcid |-> snapshot.curcid, oldest |-> oldestXmin]
    /\ UNCHANGED <<xstatus, my_xid, snapshot>>
    /\ UNCHANGED nonVisVars

VisNext ==
    \/ \E xid \in Xids : XactCommit(xid)
    \/ \E xid \in Xids : XactAbort(xid)
    \/ \E cid \in Cids : GetSnapshot(cid)
    \/ ReadRow
    \/ \E oldestXmin \in Xids \cup {FirstNormalTransactionId + NXids} :
          WriteRow(oldestXmin)
    \/ \E oldestXmin \in Xids \cup {FirstNormalTransactionId + NXids} :
          InsertRow(oldestXmin)

(***************************************************************************)
(* Sequential scan: GstoreIterateForeignScan and GstoreReScanForeignScan   *)
(* of one backend, with another backend that stores rows and takes row     *)
(* locks.                                                                  *)
(***************************************************************************)
GSTORE_NUM_BASE_ROW_LOCKS == 4000

ScanRows == 0..MaxItems

\* rowid % GSTORE_NUM_BASE_ROW_LOCKS of gstoreFdwSpinLockBaseRow
RowLockIndex(rowid) == rowid % GSTORE_NUM_BASE_ROW_LOCKS

\* the same fetch, tested against kds->nitems as it is now
ScanFetchLiveNitems ==
    /\ spc = "fetch"
    /\ read_pos' = read_pos + 1
    /\ IF read_pos >= kds_nitems
       THEN /\ spc' = "idle"
            /\ ended' = TRUE
            /\ UNCHANGED <<scan_rowid, examined>>
       ELSE /\ spc' = "lock"
            /\ scan_rowid' = read_pos
            /\ examined' = Append(examined, read_pos)
            /\ UNCHANGED ended
    /\ UNCHANGED <<kds_nitems, row_visible, base_row_lock, scan_nitems, returned,
                   ncalls, rescans>>
    /\ UNCHANGED nonScanVars

\* GstoreIterateForeignScan is called (no index expression: SeqScan)
ScanIterate ==
    /\ spc = "idle"
    /\ ncalls < MaxScanCalls
    /\ ncalls' = ncalls + 1
    /\ spc' = "fetch"
    /\ UNCHANGED <<kds_nitems, row_visible, base_row_lock, read_pos, scan_nitems,
                   scan_rowid, examined, returned, ended, rescans>>
    /\ UNCHANGED nonScanVars

\* rowid = pg_atomic_fetch_add_u64(read_pos, 1); rowid >= nitems returns NULL.
\* (rowid is the low 32 bits of the counter; MaxScanCalls keeps it below 2^32)
ScanFetch ==
    /\ spc = "fetch"
    /\ read_pos' = read_pos + 1
    /\ IF read_pos >= scan_nitems
       THEN /\ spc' = "idle"
            /\ ended' = TRUE
            /\ UNCHANGED <<scan_rowid, examined>>
       ELSE /\ spc' = "lock"
            /\ scan_rowid' = read_pos
            /\ examined' = Append(examined, read_pos)
            /\ UNCHANGED ended
    /\ UNCHANGED <<kds_nitems, row_visible, base_row_lock, scan_nitems, returned,
                   ncalls, rescans>>
    /\ UNCHANGED nonScanVars

\* gstoreFdwSpinLockBaseRow(gs_desc, rowid)
ScanLockRow ==
    /\ spc = "lock"
    /\ base_row_lock[RowLockIndex(scan_rowid)] = "free"
    /\ base_row_lock' = [base_row_lock EXCEPT ![RowLockIndex(scan_rowid)] = "scanner"]
    /\ spc' = "check"
    /\ UNCHANGED <<kds_nitems, row_visible, read_pos, scan_nitems, scan_rowid,
                   examined, returned, ended, ncalls, rescans>>
    /\ UNCHANGED nonScanVars

\* gstoreCheckVisibilityForRead under the row lock, then
\* gstoreFdwSpinUnlockBaseRow: a visible row is stored in the slot and
\* returned, an invisible one sends the loop to the next row-id
ScanCheck ==
    /\ spc = "check"
    /\ base_row_lock' = [base_row_lock EXCEPT ![RowLockIndex(scan_rowid)] = "free"]
    /\ IF scan_rowid \in row_visible
       THEN /\ returned' = Append(returned, scan_rowid)
            /\ spc' = "idle"
       ELSE /\ returned' = returned
            /\ spc' = "fetch"
    /\ UNCHANGED <<kds_nitems, row_visible, read_pos, scan_nitems, scan_rowid,
                   examined, ended, ncalls, rescans>>
    /\ UNCHANGED nonScanVars

\* GstoreReScanForeignScan: pg_atomic_write_u64(read_pos, 0)
ScanReScan ==
    /\ spc = "idle"
    /\ rescans < MaxReScans
    /\ rescans' = rescans + 1
    /\ read_pos' = 0
    /\ examined' = <<>>
    /\ returned' = <<>>
    /\ ended' = FALSE
    /\ UNCHANGED <<kds_nitems, row_visible, base_row_lock, scan_nitems, spc,
                   scan_rowid, ncalls>>
    /\ UNCHANGED nonScanVars

\* GstoreExecForeignInsert of another backend: atomicMax32(&kds->nitems, ...)
OtherInsert ==
    /\ kds_nitems <= MaxItems
    /\ kds_nitems' = kds_nitems + 1
    /\ UNCHANGED <<row_visible, base_row_lock, read_pos, scan_nitems, spc, scan_rowid,
                   examined, returned, ended, ncalls, rescans>>
    /\ UNCHANGED nonScanVars

\* another backend takes or gives back the lock of a row
OtherRowLock(l) ==
    /\ base_row_lock[l] \in {"free", "other"}
    /\ base_row_lock' = [base_row_lock EXCEPT
                            ![l] = IF base_row_lock[l] = "free" THEN "other" ELSE "free"]
    /\ UNCHANGED <<kds_nitems, row_visible, read_pos, scan_nitems, spc, scan_rowid,
                   examined, returned, ended, ncalls, rescans>>
    /\ UNCHANGED nonScanVars

ScanNext ==
    \/ ScanIterate
    \/ ScanFetch
    \/ ScanLockRow
    \/ ScanCheck
    \/ ScanReScan
    \/ OtherInsert
    \/ \E l \in ScanRows : OtherRowLock(l)

(***************************************************************************)
(* Lookup by primary key: lookupGpuStorePrimaryKey on the hash index of    *)
(* the base file, and GstoreIterateForeignScanByPrimaryKey.  The index is  *)
(* read from the file as it is; gstoreFdwValidateBaseFile tests its        *)
(* signature, nrooms and nslots only.                                      *)
(***************************************************************************)
GSTORE_NUM_HASH_SLOT_LOCKS == 5000

HashRows == 0..(HashRooms - 1)
Keys == 1..MaxKey
NullKey == 0

\* what a slot or a next field can hold: no row, a row-id below
\* hash_index->nrooms, or a row-id past it
ChainPointers == {UINT_MAX} \cup HashRows \cup {HashRooms}

\* the hash function of the key type, and hash % GSTORE_NUM_HASH_SLOT_LOCKS
HashProc(key) == key
HashLockIndex(hash) == hash % GSTORE_NUM_HASH_SLOT_LOCKS

\* one turn of the loop that follows the next field without the test
\* rowid >= hash_index->nrooms
LookupWalkNoRangeTest ==
    /\ kpc = "walk"
    /\ k_rowid # UINT_MAX
    /\ k_touched' = k_touched \cup {k_rowid}
    /\ IF k_rowid \in HashRows
       THEN IF row_key[k_rowid] # NullKey /\ row_key[k_rowid] = k_key
            THEN kpc' = "spin" /\ k_rowid' = k_rowid
            ELSE kpc' = kpc /\ k_rowid' = hash_rowmap[k_rowid]
       ELSE kpc' = "spin" /\ k_rowid' = UINT_MAX
    /\ UNCHANGED <<hash_slots, hash_rowmap, row_key, hash_slot_lock, k_key, pk_ret>>
    /\ UNCHANGED nonHashVars

\* lookupGpuStorePrimaryKey(gs_desc, key_value, last_rowid): the hash is
\* computed, the lock of its slot is asked for
LookupEnter(key) ==
    /\ kpc = "idle"
    /\ k_key' = key
    /\ kpc' = "lock"
    /\ UNCHANGED <<hash_slots, hash_rowmap, row_key, hash_slot_lock, k_rowid,
                   k_touched, pk_ret>>
    /\ UNCHANGED nonHashVars

\* gstoreFdwSpinLockHashSlot, then the first row-id: the head of the chain
\* (last_rowid == UINT_MAX), the next field of last_rowid, or UINT_MAX when
\* last_rowid >= hash_index->nrooms
LookupLock(last_rowid) ==
    /\ kpc = "lock"
    /\ HashLockIndex(HashProc(k_key)) \notin hash_slot_lock
    /\ hash_slot_lock' = hash_slot_lock \cup {HashLockIndex(HashProc(k_key))}
    /\ IF last_rowid = UINT_MAX
       THEN /\ k_rowid' = hash_slots[HashProc(k_key) % NSlots]
            /\ k_touched' = k_touched
       ELSE IF last_rowid < HashRooms
       THEN /\ k_rowid' = hash_rowmap[last_rowid]
            /\ k_touched' = k_touched \cup {last_rowid}
       ELSE /\ k_rowid' = UINT_MAX
            /\ k_touched' = k_touched
    /\ kpc' = "walk"
    /\ UNCHANGED <<hash_slots, hash_rowmap, row_key, k_key, pk_ret>>
    /\ UNCHANGED nonHashVars

\* one turn of while (rowid != UINT_MAX) { ... }
LookupWalk ==
    /\ kpc = "walk"
    /\ k_rowid # UINT_MAX
    /\ IF ~ULess(k_rowid, HashRooms)
       THEN /\ k_rowid' = UINT_MAX
            /\ kpc' = "spin"
            /\ k_touched' = k_touched
       ELSE /\ k_touched' = k_touched \cup {k_rowid}
            /\ IF row_key[k_rowid] # NullKey /\ row_key[k_rowid] = k_key
               THEN kpc' = "spin" /\ k_rowid' = k_rowid
               ELSE kpc' = kpc /\ k_rowid' = hash_rowmap[k_rowid]
    /\ UNCHANGED <<hash_slots, hash_rowmap, row_key, hash_slot_lock, k_key, pk_ret>>
    /\ UNCHANGED nonHashVars

\* the loop is left because rowid == UINT_MAX
LookupWalkEnd ==
    /\ kpc = "walk"
    /\ k_rowid = UINT_MAX
    /\ kpc' = "spin"
    /\ UNCHANGED <<hash_slots, hash_rowmap, row_key, hash_slot_lock, k_key, k_rowid,
                   k_touched, pk_ret>>
    /\ UNCHANGED nonHashVars

\* the statement 'while (rowid != UINT_MAX);' that follows the loop, then
\* gstoreFdwSpinUnlockHashSlot and return rowid.  With rowid != UINT_MAX the
\* statement is a loop without a body whose test cannot change: the build
\* either spins in it for ever (no step here, the lock stays held) or, as
\* the language lets a compiler assume such a loop ends, goes on
LookupUnlock ==
    /\ kpc = "spin"
    /\ hash_slot_lock' = hash_slot_lock \ {HashLockIndex(HashProc(k_key))}
    /\ kpc' = "done"
    /\ UNCHANGED <<hash_slots, hash_rowmap, row_key, k_key, k_rowid, k_touched, pk_ret>>
    /\ UNCHANGED nonHashVars

\* GstoreIterateForeignScan with an index expression calls
\* GstoreIterateForeignScanByPrimaryKey, whose body is compiled out (#if 0):
\* it returns NULL, no row, whatever the key
PkScanIterate(key) ==
    /\ pk_ret = <<>>
    /\ pk_ret' = <<key, UINT_MAX>>
    /\ UNCHANGED <<hash_slots, hash_rowmap, row_key, hash_slot_lock, kpc, k_key,
                   k_rowid, k_touched>>
    /\ UNCHANGED nonHashVars

LookupNext ==
    \/ \E key \in Keys : LookupEnter(key)
    \/ \E last_rowid \in ChainPointers : LookupLock(last_rowid)
    \/ LookupWalk
    \/ LookupWalkEnd
    \/ LookupUnlock
    \/ \E key \in Keys : PkScanIterate(key)

(***************************************************************************)
(* The registry of shared states: gstoreFdwLookupGpuStoreDesc, with        *)
(* gstoreFdwAllocSharedState and gstoreFdwCreateSharedState.  Each process *)
(* has its own gstore_desc_htab; the chains and their locks are shared.    *)
(***************************************************************************)
GPUSTORE_SHARED_DESC_NSLOTS == 107
InvalidOid == 0
MyDatabaseId == 1

Tables == 1..NTables

\* hash_any(hkey) % GPUSTORE_SHARED_DESC_NSLOTS; the sum of the two oids
\* stands for hash_any
SstateSlotIndex(hkey) == (hkey[1] + hkey[2]) % GPUSTORE_SHARED_DESC_NSLOTS

SstateSlots == {SstateSlotIndex(<<MyDatabaseId, t>>) : t \in Tables}

\* the value read from gs_desc->gs_sstate when nothing was written to it
\* since hash_search made the entry
GarbagePointer == -1

\* gstoreFdwAllocSharedState: the object is allocated zeroed and the
\* options, locks and revisions are written; frel records the table whose
\* options were read.  database_oid and ftable_oid are written nowhere
AllocSharedState(frel) ==
    [database_oid |-> InvalidOid, ftable_oid |-> InvalidOid, frel |-> frel]

\* dlist_foreach over the chain: the first shared state whose database_oid
\* and ftable_oid are those of the call, 0 when there is none
RECURSIVE ChainSearch(_, _, _)
ChainSearch(chain, i, frel) ==
    IF i > Len(chain) THEN 0
    ELSE IF /\ sstates[chain[i]].database_oid = MyDatabaseId
            /\ sstates[chain[i]].ftable_oid = frel
    THEN chain[i]
    ELSE ChainSearch(chain, i + 1, frel)

\* gstoreFdwLookupGpuStoreDesc(frel): hash_search(HASH_ENTER) on the table
\* of the process.  An entry that was there is returned as it is; a new
\* one sends the process to the chain of the shared registry
DescLookup(p, frel) ==
    /\ gpc[p] = "idle"
    /\ opens[p] < MaxOpens
    /\ opens' = [opens EXCEPT ![p] = @ + 1]
    /\ g_frel' = [g_frel EXCEPT ![p] = frel]
    /\ gpc' = [gpc EXCEPT ![p] = IF gstore_desc_htab[p][frel] # 0 THEN "idle"
                                  ELSE "lock"]
    /\ UNCHANGED <<sstates, gstore_sstate_slot, gstore_sstate_lock, gstore_desc_htab>>
    /\ UNCHANGED nonRegVars

\* SpinLockAcquire(hlock)
DescLock(p) ==
    /\ gpc[p] = "lock"
    /\ gstore_sstate_lock[SstateSlotIndex(<<MyDatabaseId, g_frel[p]>>)] = 0
    /\ gstore_sstate_lock' =
           [gstore_sstate_lock EXCEPT ![SstateSlotIndex(<<MyDatabaseId, g_frel[p]>>)] = p]
    /\ gpc' = [gpc EXCEPT ![p] = "search"]
    /\ UNCHANGED <<sstates, gstore_sstate_slot, gstore_desc_htab, g_frel, opens>>
    /\ UNCHANGED nonRegVars

\* the chain is searched.  A match jumps to 'found:' past the assignment of
\* gs_desc->gs_sstate, which keeps what the new entry held: any value.  No
\* match: gstoreFdwCreateSharedState, which either raises an error (the
\* object is freed, the entry removed, the lock released) or gives the new
\* shared state, put at the tail of the chain and into the entry
DescSearch(p, err) ==
    LET h == SstateSlotIndex(<<MyDatabaseId, g_frel[p]>>)
        hit == ChainSearch(gstore_sstate_slot[h], 1, g_frel[p])
    IN  /\ gpc[p] = "search"
        /\ IF hit # 0
           THEN /\ \E junk \in {GarbagePointer} \cup (1..Len(sstates)) :
                     gstore_desc_htab' = [gstore_desc_htab EXCEPT ![p][g_frel[p]] = junk]
                /\ gpc' = [gpc EXCEPT ![p] = "unlock"]
                /\ UNCHANGED <<sstates, gstore_sstate_slot, gstore_sstate_lock>>
           ELSE IF err
           THEN /\ gstore_sstate_lock' = [gstore_sstate_lock EXCEPT ![h] = 0]
                /\ gpc' = [gpc EXCEPT ![p] = "idle"]
                /\ UNCHANGED <<sstates, gstore_sstate_slot, gstore_desc_htab>>
           ELSE /\ sstates' = Append(sstates, AllocSharedState(g_frel[p]))
                /\ gstore_sstate_slot' =
                       [gstore_sstate_slot EXCEPT ![h] = Append(@, Len(sstates) + 1)]
                /\ gstore_desc_htab' =
                       [gstore_desc_htab EXCEPT ![p][g_frel[p]] = Len(sstates) + 1]
                /\ gpc' = [gpc EXCEPT ![p] = "unlock"]
                /\ UNCHANGED gstore_sstate_lock
        /\ UNCHANGED <<g_frel, opens>>
        /\ UNCHANGED nonRegVars

\* SpinLockRelease(hlock), and the descriptor is returned
DescUnlock(p) ==
    /\ gpc[p] = "unlock"
    /\ gstore_sstate_lock' =
           [gstore_sstate_lock EXCEPT ![SstateSlotIndex(<<MyDatabaseId, g_frel[p]>>)] = 0]
    /\ gpc' = [gpc EXCEPT ![p] = "idle"]
    /\ UNCHANGED <<sstates, gstore_sstate_slot, gstore_desc_htab, g_frel, opens>>
    /\ UNCHANGED nonRegVars

RegistryNext ==
    \/ \E p \in Procs, frel \in Tables : DescLookup(p, frel)
    \/ \E p \in Procs : DescLock(p)
    \/ \E p \in Procs, err \in BOOLEAN : DescSearch(p, err)
    \/ \E p \in Procs : DescUnlock(p)

(***************************************************************************)
(* Open of a store: gstoreFdwCreateSharedState on a base file and a REDO   *)
(* log that exist, then appends by the opened store, and a stop of the     *)
(* server without a shutdown.  The log is a sequence of units after        *)
(* checkpoint_offset; a record starts at a unit, carries a tag and a       *)
(* length in units, and the mapped log ends after OpenLogCells units.      *)
(***************************************************************************)
GPUSTORE_BASEFILE_SIGNATURE == "@BASE-1@"
GPUSTORE_BASEFILE_MAPPED_SIGNATURE == "%Base-1%"

\* the signatures gstoreFdwValidateBaseFile accepts (lines 2141-2149)
BaseSignatures == {GPUSTORE_BASEFILE_SIGNATURE, GPUSTORE_BASEFILE_MAPPED_SIGNATURE}

OpenCells == 1..OpenLogCells
RowTags == {"INSERT", "UPDATE", "DELETE"}
KnownTags == RowTags \cup {"COMMIT"}
\* what a unit of the log may hold where a record is looked for: a tag
\* ("END": none of the known ones) and a length field
OpenRecords == [type : KnownTags \cup {"END"}, length : 0..MaxOpenRecLen]

\* the loop test 'redo_pos + offsetof(GstoreTxLogCommon, data) < redo_mmap_sz'
\* and the tag test (lines 2580-2587, 2716-2725)
AtKnownRecord == open_pos <= OpenLogCells /\ open_log[open_pos].type \in KnownTags

\* gstoreFdwCreateOrValidateBaseFile on a base file that exists: the
\* signature decides basefile_is_sanity; gstoreFdwCreateRedoLog leaves a
\* log that exists as it is
OpenValidate ==
    /\ opc = "closed"
    /\ basefile_is_sanity' = (base_signature = GPUSTORE_BASEFILE_SIGNATURE)
    /\ opc' = "validated"
    /\ turns' = 0
    /\ napplied' = 0
    /\ UNCHANGED <<base_signature, open_log, open_pos, open_log_pos, mutated>>
    /\ UNCHANGED nonOpenVars

\* gstoreFdwApplyRedoLog: the log is mapped, and redo_pos starts at
\* checkpoint_offset in __ApplyRedoLogMain or in the loop of the clean path
OpenApplyStart ==
    /\ opc = "validated"
    /\ open_pos' = 1
    /\ opc' = IF basefile_is_sanity THEN "seek" ELSE "replay"
    /\ UNCHANGED <<base_signature, open_log, basefile_is_sanity, turns, napplied,
                   open_log_pos, mutated>>
    /\ UNCHANGED nonOpenVars

\* one turn of the loop of __ApplyRedoLogMain: a row record is applied to the
\* base file, a COMMIT record is skipped, redo_pos += length.  (A row record
\* that reaches past the mapped size is read all the same; when the read
\* kills the process, that is OpenCrash.)
OpenReplayTurn ==
    /\ opc = "replay"
    /\ AtKnownRecord
    /\ turns < MaxTurns
    /\ turns' = turns + 1
    /\ napplied' = IF open_log[open_pos].type \in RowTags THEN napplied + 1
                   ELSE napplied
    /\ open_pos' = open_pos + open_log[open_pos].length
    /\ UNCHANGED <<base_signature, open_log, opc, basefile_is_sanity, open_log_pos,
                   mutated>>
    /\ UNCHANGED nonOpenVars

\* the position the open found, stored by pg_atomic_init_u64 (line 2937)
OpenReturns ==
    /\ opc' = "open"
    /\ open_log_pos' = open_pos
    /\ UNCHANGED <<base_signature, open_log, basefile_is_sanity, open_pos, turns,
                   napplied, mutated>>

\* the loop of __ApplyRedoLogMain ends
OpenReplayEnd ==
    /\ opc = "replay"
    /\ ~AtKnownRecord
    /\ OpenReturns
    /\ UNCHANGED nonOpenVars

\* one turn of the loop of the clean path: redo_pos += tx_log->length
OpenSeekTurn ==
    /\ opc = "seek"
    /\ AtKnownRecord
    /\ turns < MaxTurns
    /\ turns' = turns + 1
    /\ open_pos' = open_pos + open_log[open_pos].length
    /\ UNCHANGED <<base_signature, open_log, opc, basefile_is_sanity, napplied,
                   open_log_pos, mutated>>
    /\ UNCHANGED nonOpenVars

\* the loop of the clean path ends with the write position at the base of
\* the log, no record looked at
OpenSeekEndAtCheckpoint ==
    /\ opc = "seek"
    /\ ~AtKnownRecord
    /\ opc' = "open"
    /\ open_log_pos' = 1
    /\ UNCHANGED <<base_signature, open_log, basefile_is_sanity, open_pos, turns,
                   napplied, mutated>>
    /\ UNCHANGED nonOpenVars

\* the loop of the clean path ends: elog(LOG) at most, and break
OpenSeekEnd ==
    /\ opc = "seek"
    /\ ~AtKnownRecord
    /\ OpenReturns
    /\ UNCHANGED nonOpenVars

\* an insert of the opened store: its record goes to redo_log_pos (when the
\* log has room for it), and the row is stored in the base file
OpenAppend ==
    /\ opc = "open"
    /\ open_log_pos <= OpenLogCells
    /\ open_log' = [open_log EXCEPT ![open_log_pos] = [type |-> "INSERT", length |-> 1]]
    /\ open_log_pos' = open_log_pos + 1
    /\ mutated' = TRUE
    /\ UNCHANGED <<base_signature, opc, basefile_is_sanity, open_pos, turns, napplied>>
    /\ UNCHANGED nonOpenVars

\* the server stops without a shutdown: the shared state is gone, the files
\* stay as they are
OpenCrash ==
    /\ opc # "closed"
    /\ opc' = "closed"
    /\ open_pos' = 1
    /\ turns' = 0
    /\ napplied' = 0
    /\ open_log_pos' = 1
    /\ basefile_is_sanity' = TRUE
    /\ UNCHANGED <<base_signature, open_log, mutated>>
    /\ UNCHANGED nonOpenVars

OpenNext ==
    \/ OpenValidate
    \/ OpenApplyStart
    \/ OpenReplayTurn
    \/ OpenReplayEnd
    \/ OpenSeekTurn
    \/ OpenSeekEnd
    \/ OpenAppend
    \/ OpenCrash

(***************************************************************************)
(* Layout of the base file: gstoreFdwCreateBaseFile computes the sections  *)
(* and writes their headers, gstoreFdwValidateBaseFile recomputes them     *)
(* from the same relation when the store is opened.  Sizes are in bytes.   *)
(***************************************************************************)
NoBaseFile == <<>>

GPUSTORE_ROWIDMAP_SIGNATURE == "@ROW-ID@"
GPUSTORE_HASHINDEX_SIGNATURE == "@HINDEX@"

TYPEALIGN(a, x) == ((x + a - 1) \div a) * a
MAXALIGN(x) == TYPEALIGN(8, x)
PAGE_ALIGN(x) == TYPEALIGN(PAGE_SIZE, x)
BITMAPLEN(n) == (n + 7) \div 8

\* __kds_packed() is declared outside this file: the offset in units of
\* MAXIMUM_ALIGNOF bytes
kds_packed(x) == x \div 8

\* the columns a device tuple descriptor can hold: not-null or nullable,
\* int4-like, int8-like or variable-length (attlen = -1)
LayoutColumns == [attnotnull : BOOLEAN, attlen : {4, 8, -1}]

attalign(attr) == IF attr.attlen = 8 THEN 8 ELSE 4

TupleDescs == UNION {[1..n -> LayoutColumns] : n \in 1..MaxLayoutCols}

\* KDS_calculateHeadSize() is declared outside this file: the header of a
\* kern_data_store with one kern_colmeta per column, aligned
KDS_calculateHeadSize(desc) == MAXALIGN(KdsHeadSz + KdsColmetaSz * Len(desc))

\* offsetof(GpuStoreBaseFileHead, schema): signature[8], two uint64 and
\* ftable_name[NAMEDATALEN]
BaseFileHeadSz == 8 + 8 + 8 + NAMEDATALEN

\* offsetof(GpuStoreRowIdMapHead, base[n]): signature[8], size_t length,
\* cl_uint nrooms padded to 8, then n words of 8 bytes
RowIdMapHeadOffsetofBase(n) == 8 + 8 + 8 + 8 * n

\* offsetof(GpuStoreHashIndexHead, slots[n]): signature[8], two uint64, then
\* n words of 4 bytes
HashIndexHeadOffsetofSlots(n) == 8 + 8 + 8 + 4 * n

gstoreFdwRowIdMapSize(n) ==
    RowIdMapHeadOffsetofBase(
        IF n <= 256 THEN 4
        ELSE IF n <= 65536 THEN 4 + TYPEALIGN(256, n) \div 64
        ELSE IF n <= 16777216 THEN 4 + 1024 + TYPEALIGN(256, n) \div 64
        ELSE 4 + 1024 + 262144 + TYPEALIGN(256, n) \div 64)

\* gs_sstate->num_hash_slots as gstoreFdwAllocSharedState sets it (zero
\* without a primary key: the shared state is allocated zeroed)
NumHashSlots(n, pk) == IF pk >= 0 THEN (12 * n) \div 10 + 1000 ELSE 0

\* the sizes the loop over the columns of create and of validate adds for
\* one column: the null map (0 for a not-null column) and the values array
NullmapSz(attr, n) == IF attr.attnotnull THEN 0 ELSE MAXALIGN(BITMAPLEN(n))

ValuesSz(attr, n) ==
    IF attr.attlen > 0
    THEN MAXALIGN(TYPEALIGN(attalign(attr), attr.attlen) * n)
    ELSE MAXALIGN(4 * n)

\* main_sz before column j (1-based) is laid out
RECURSIVE MainSzBefore(_, _, _)
MainSzBefore(desc, n, j) ==
    IF j = 1 THEN KDS_calculateHeadSize(desc)
    ELSE MainSzBefore(desc, n, j - 1) + NullmapSz(desc[j - 1], n)
                                      + ValuesSz(desc[j - 1], n)

\* schema->has_varlena as init_kernel_data_store sets it
HasVarlena(desc) == \E j \in 1..Len(desc) : desc[j].attlen = -1

RECURSIVE ExtraSz(_, _, _)
ExtraSz(desc, n, j) ==
    IF j > Len(desc) THEN 0
    ELSE (IF desc[j].attlen = -1 THEN MAXALIGN(TypAvgWidth) * n ELSE 0)
         + ExtraSz(desc, n, j + 1)

\* the colmeta[] entries create fills in (lines 1995-2035)
CreateColmeta(desc, n) ==
    [j \in 1..Len(desc) |->
        LET at == MainSzBefore(desc, n, j)
            nsz == NullmapSz(desc[j], n)
        IN  [attlen |-> desc[j].attlen,
             attalign |-> attalign(desc[j]),
             nullmap_offset |-> IF desc[j].attnotnull THEN 0 ELSE kds_packed(at),
             nullmap_length |-> IF desc[j].attnotnull THEN 0 ELSE kds_packed(nsz),
             values_offset |-> kds_packed(at + nsz),
             values_length |-> kds_packed(ValuesSz(desc[j], n))]]

\* gstoreFdwCreateBaseFile: the header, the section headers and the size of
\* the file
CreateBaseFile(desc, n, pk) ==
    LET nslots == NumHashSlots(n, pk)
        main_sz == MainSzBefore(desc, n, Len(desc) + 1)
        rowid_map_offset == PAGE_ALIGN(BaseFileHeadSz + main_sz)
        rowmap_sz == gstoreFdwRowIdMapSize(n)
        after_rowmap == rowid_map_offset + PAGE_ALIGN(rowmap_sz)
        hash_sz == HashIndexHeadOffsetofSlots(nslots + n)
        after_hash == IF pk >= 0 THEN after_rowmap + PAGE_ALIGN(hash_sz)
                      ELSE after_rowmap
        extra_sz == ExtraSz(desc, n, 1)
        file_sz == IF HasVarlena(desc) THEN after_hash + PAGE_ALIGN(extra_sz)
                   ELSE after_hash
    IN  [signature |-> GPUSTORE_BASEFILE_SIGNATURE,
         rowid_map_offset |-> rowid_map_offset,
         hash_index_offset |-> IF pk >= 0 THEN after_rowmap ELSE 0,
         schema |-> [ncols |-> Len(desc),
                     nrooms |-> n,
                     length |-> main_sz,
                     has_varlena |-> HasVarlena(desc),
                     extra_hoffset |-> IF HasVarlena(desc)
                                       THEN after_hash - BaseFileHeadSz ELSE 0,
                     extra_hlength |-> IF HasVarlena(desc) THEN extra_sz ELSE 0,
                     colmeta |-> CreateColmeta(desc, n)],
         rowid_map |-> [signature |-> GPUSTORE_ROWIDMAP_SIGNATURE,
                        length |-> rowmap_sz,
                        nrooms |-> n],
         hash_index |-> IF pk >= 0
                        THEN [signature |-> GPUSTORE_HASHINDEX_SIGNATURE,
                              nrooms |-> n,
                              nslots |-> nslots]
                        ELSE [signature |-> "", nrooms |-> 0, nslots |-> 0],
         mmap_sz |-> file_sz]

\* the test of one column in gstoreFdwValidateBaseFile (lines 2169-2228)
ColumnIsCompatible(file, desc, n, j) ==
    LET cmeta == file.schema.colmeta[j]
        attr == desc[j]
        at == MainSzBefore(desc, n, j)
        nsz == NullmapSz(attr, n)
    IN  /\ cmeta.attalign = attalign(attr)
        /\ ~(cmeta.nullmap_offset # 0 /\ attr.attnotnull)
        /\ ~(cmeta.nullmap_offset = 0 /\ ~attr.attnotnull)
        /\ IF attr.attnotnull
           THEN cmeta.nullmap_offset = 0 /\ cmeta.nullmap_length = 0
           ELSE /\ cmeta.nullmap_offset = kds_packed(at)
                /\ cmeta.nullmap_length = kds_packed(nsz)
        /\ cmeta.values_offset = kds_packed(at + nsz)
        /\ cmeta.values_length = kds_packed(ValuesSz(attr, n))

\* the size validate requires of the hash index section: the offsetof of
\* line 2264 names GpuStoreRowIdMapHead and its base[]
ValidateHashSz(nslots, n) == RowIdMapHeadOffsetofBase(nslots + n)

\* gstoreFdwValidateBaseFile: "ok", or the elog(ERROR) that is raised first
ValidateBaseFile(file, desc, n, pk) ==
    LET nslots == NumHashSlots(n, pk)
        schema == file.schema
        main_sz == MainSzBefore(desc, n, Len(desc) + 1)
    IN  IF file.signature \notin {GPUSTORE_BASEFILE_SIGNATURE,
                                  GPUSTORE_BASEFILE_MAPPED_SIGNATURE}
        THEN "wrong signature"
        ELSE IF BaseFileHeadSz + KDS_calculateHeadSize(desc) > file.mmap_sz
        THEN "too small than expects"
        ELSE IF schema.ncols # Len(desc) \/ schema.nrooms # n
        THEN "incompatible schema definition"
        ELSE IF \E j \in 1..Len(desc) : ~ColumnIsCompatible(file, desc, n, j)
        THEN "column is incompatible"
        ELSE IF main_sz # schema.length \/ main_sz > file.mmap_sz
        THEN "too small then required"
        ELSE IF file.rowid_map_offset + gstoreFdwRowIdMapSize(n) > file.mmap_sz
        THEN "too small then necessity"
        ELSE IF \/ file.rowid_map.signature # GPUSTORE_ROWIDMAP_SIGNATURE
                \/ file.rowid_map.length # gstoreFdwRowIdMapSize(n)
                \/ file.rowid_map.nrooms # n
        THEN "corrupted RowID-map"
        ELSE IF pk < 0 /\ file.hash_index_offset # 0
        THEN "has PK Index"
        ELSE IF pk >= 0 /\ file.hash_index_offset = 0
        THEN "has no PK Index"
        ELSE IF pk >= 0 /\ file.hash_index_offset + ValidateHashSz(nslots, n)
                               > file.mmap_sz
        THEN "smaller then the estimation"
        ELSE IF pk >= 0 /\ (\/ file.hash_index.signature
                                   # GPUSTORE_HASHINDEX_SIGNATURE
                            \/ file.hash_index.nrooms # n
                            \/ file.hash_index.nslots # nslots)
        THEN "corrupted Hash-index"
        ELSE IF ~schema.has_varlena
                /\ (schema.extra_hoffset # 0 \/ schema.extra_hlength # 0)
        THEN "has extra buffer"
        ELSE IF schema.has_varlena
                /\ (schema.extra_hoffset = 0 \/ schema.extra_hlength = 0)
        THEN "has no extra buffer"
        ELSE IF schema.has_varlena
                /\ BaseFileHeadSz + schema.extra_hoffset + schema.extra_hlength
                       > file.mmap_sz
        THEN "smaller then the required"
        ELSE "ok"

\* the base file does not exist yet: gstoreFdwCreateSharedState creates it
LayoutCreate ==
    /\ base_file = NoBaseFile
    /\ base_file' = CreateBaseFile(tupdesc, max_num_rows, primary_key)
    /\ UNCHANGED <<tupdesc, max_num_rows, primary_key, validate_ret>>
    /\ UNCHANGED nonLayoutVars

\* the next open of the store finds the file and validates it against the
\* same relation
LayoutValidate ==
    /\ base_file # NoBaseFile
    /\ validate_ret = "none"
    /\ validate_ret' = ValidateBaseFile(base_file, tupdesc, max_num_rows,
                                        primary_key)
    /\ UNCHANGED <<tupdesc, max_num_rows, primary_key, base_file>>
    /\ UNCHANGED nonLayoutVars

LayoutNext ==
    \/ LayoutCreate
    \/ LayoutValidate

(***************************************************************************)
(* GstoreExecForeignInsert, step by step, of backends that insert into one *)
(* single-level table: allocate a row-id, lock the row, write check,       *)
(* append the REDO log, store the columns, atomicMax32 of nitems, unlock.  *)
(***************************************************************************)
InsRows == 0..(InsRooms - 1)

\* the transaction of each inserting backend (in progress), and one other
\* transaction that has committed
InsXid(p) == FirstNormalTransactionId + p - 1
CommittedXid == FirstNormalTransactionId + NXids - 1

\* GetCurrentCommandId(true) of the inserting statement
InsCommandId == MaxCid

\* gs_mstate->oldestXmin: the inserting transactions are running
InsOldestXmin == FirstNormalTransactionId

\* rows of the base file: never written, live (inserter frozen, no deleter)
\* and deleted by a committed transaction
InsZeroRow == [val |-> 0, xmin |-> InvalidTransactionId,
               xmax |-> InvalidTransactionId, cid |-> 0]
InsLiveRow == [val |-> 1, xmin |-> FrozenTransactionId,
               xmax |-> InvalidTransactionId, cid |-> 0]
InsDeadRow == [val |-> 1, xmin |-> CommittedXid,
               xmax |-> CommittedXid, cid |-> 0]
InsStoredRows == {InsZeroRow, InsLiveRow, InsDeadRow}

\* kds->nitems of a base file whose rows were stored by inserts: one more
\* than the last row that was written
InsItems(b) ==
    IF \A r \in InsRows : b[r] = InsZeroRow THEN 0
    ELSE 1 + CHOOSE r \in InsRows :
                 b[r] # InsZeroRow /\ \A q \in InsRows : b[q] # InsZeroRow => q <= r

InsSysattr(row) == [xmin |-> row.xmin, xmax |-> row.xmax, cid |-> row.cid]

\* the executor calls GstoreExecForeignInsert with a slot
InsertBegin(p, d) ==
    /\ ipc[p] = "idle"
    /\ i_calls < MaxInsertCalls
    /\ i_calls' = i_calls + 1
    /\ i_datum' = [i_datum EXCEPT ![p] = d]
    /\ ipc' = [ipc EXCEPT ![p] = "allocate"]
    /\ UNCHANGED <<ins_map, ins_base, ins_nitems, ins_row_lock, ins_log, i_rowid,
                   i_next_rowid, i_oldval, i_returned, i_scan>>
    /\ UNCHANGED nonInsVars

\* rowid = gstoreFdwAllocateRowId(gs_desc, gs_mstate->next_rowid), the whole
\* call under rowid_map_lock; rowid >= kds->nrooms raises "no room"
InsertAllocate(p) ==
    /\ ipc[p] = "allocate"
    /\ LET r == AllocateRowId(ins_map, InsRooms, i_next_rowid[p])
       IN  /\ ins_map' = r.bits
           /\ i_rowid' = [i_rowid EXCEPT ![p] = r.rowid]
           /\ IF InsertCaller(r.rowid, InsRooms) = "no_room"
              THEN /\ ipc' = [ipc EXCEPT ![p] = "idle"]
                   /\ UNCHANGED i_next_rowid
              ELSE /\ ipc' = [ipc EXCEPT ![p] = "lock_row"]
                   /\ i_next_rowid' = [i_next_rowid EXCEPT ![p] = r.rowid + 1]
    /\ UNCHANGED <<ins_base, ins_nitems, ins_row_lock, ins_log, i_datum, i_oldval,
                   i_returned, i_scan, i_calls>>
    /\ UNCHANGED nonInsVars

\* gstoreFdwSpinLockBaseRow(gs_desc, rowid)
InsertLockRow(p) ==
    /\ ipc[p] = "lock_row"
    /\ ins_row_lock[i_rowid[p]] = NoProc
    /\ ins_row_lock' = [ins_row_lock EXCEPT ![i_rowid[p]] = p]
    /\ ipc' = [ipc EXCEPT ![p] = "check"]
    /\ UNCHANGED <<ins_map, ins_base, ins_nitems, ins_log, i_rowid, i_next_rowid,
                   i_datum, i_oldval, i_returned, i_scan, i_calls>>
    /\ UNCHANGED nonInsVars

\* gstoreCheckVisibilityForWrite(gs_desc, rowid, gs_mstate->oldestXmin) on the
\* system column in place; true leaves the loop, false unlocks the row and
\* allocates again.  (An inserter of the row that is one of the inserting
\* backends is in progress: the check returns false for it whether or not it
\* is the caller's own transaction.)
InsertCheck(p) ==
    /\ ipc[p] = "check"
    /\ LET r == i_rowid[p]
           c == CheckVisibilityForWrite(InsSysattr(ins_base[r]), InsOldestXmin)
       IN  /\ ins_base' = [ins_base EXCEPT ![r].xmin = c.sysattr.xmin,
                                           ![r].xmax = c.sysattr.xmax]
           /\ IF c.ret
              THEN /\ ipc' = [ipc EXCEPT ![p] = "append"]
                   /\ UNCHANGED ins_row_lock
              ELSE /\ ipc' = [ipc EXCEPT ![p] = "allocate"]
                   /\ ins_row_lock' = [ins_row_lock EXCEPT ![r] = NoProc]
    /\ UNCHANGED <<ins_map, ins_nitems, ins_log, i_rowid, i_next_rowid, i_datum,
                   i_oldval, i_returned, i_scan, i_calls>>
    /\ UNCHANGED nonInsVars

\* gstoreFdwAppendRedoLog(frel, gs_desc, GSTORE_TX_LOG__INSERT, rowid, xid,
\* tuple, NULL) returns; gstoreFdwAppendCommitLog appends nothing
InsertAppend(p) ==
    /\ ipc[p] = "append"
    /\ ins_log' = Append(ins_log, [rowid |-> i_rowid[p], xid |-> InsXid(p)])
    /\ ipc' = [ipc EXCEPT ![p] = "store"]
    /\ UNCHANGED <<ins_map, ins_base, ins_nitems, ins_row_lock, i_rowid,
                   i_next_rowid, i_datum, i_oldval, i_returned, i_scan, i_calls>>
    /\ UNCHANGED nonInsVars

\* gstoreFdwAppendRedoLog raises elog(ERROR) (the log cannot be mapped,
\* grown or rotated): control goes to PG_CATCH
InsertAppendFails(p) ==
    /\ ipc[p] = "append"
    /\ ipc' = [ipc EXCEPT ![p] = "catch"]
    /\ UNCHANGED <<ins_map, ins_base, ins_nitems, ins_row_lock, ins_log, i_rowid,
                   i_next_rowid, i_datum, i_oldval, i_returned, i_scan, i_calls>>
    /\ UNCHANGED nonInsVars

\* PG_CATCH: gstoreFdwSpinUnlockBaseRow(gs_desc, rowid); PG_RE_THROW()
InsertCatch(p) ==
    /\ ipc[p] = "catch"
    /\ ins_row_lock' = [ins_row_lock EXCEPT ![i_rowid[p]] = NoProc]
    /\ ipc' = [ipc EXCEPT ![p] = "idle"]
    /\ UNCHANGED <<ins_map, ins_base, ins_nitems, ins_log, i_rowid, i_next_rowid,
                   i_datum, i_oldval, i_returned, i_scan, i_calls>>
    /\ UNCHANGED nonInsVars

\* the loop of KDS_store_datum_column over the user columns
InsertStoreColumns(p) ==
    /\ ipc[p] = "store"
    /\ ins_base' = [ins_base EXCEPT ![i_rowid[p]].val = i_datum[p]]
    /\ ipc' = [ipc EXCEPT ![p] = "sysattr"]
    /\ UNCHANGED <<ins_map, ins_nitems, ins_row_lock, ins_log, i_rowid, i_next_rowid,
                   i_datum, i_oldval, i_returned, i_scan, i_calls>>
    /\ UNCHANGED nonInsVars

\* sysattr.xmin = xid; sysattr.xmax = InvalidTransactionId; sysattr.cid =
\* GetCurrentCommandId(true); KDS_store_datum_column of the system column
InsertStoreSysattr(p) ==
    /\ ipc[p] = "sysattr"
    /\ ins_base' = [ins_base EXCEPT ![i_rowid[p]].xmin = InsXid(p),
                                    ![i_rowid[p]].xmax = InvalidTransactionId,
                                    ![i_rowid[p]].cid = InsCommandId]
    /\ ipc' = [ipc EXCEPT ![p] = "max_read"]
    /\ UNCHANGED <<ins_map, ins_nitems, ins_row_lock, ins_log, i_rowid, i_next_rowid,
                   i_datum, i_oldval, i_returned, i_scan, i_calls>>
    /\ UNCHANGED nonInsVars

\* atomicMax32(&kds->nitems, rowid + 1): oldval = *ptr; if (oldval >= newval)
\* return oldval
AtomicMaxRead(p) ==
    /\ ipc[p] = "max_read"
    /\ i_oldval' = [i_oldval EXCEPT ![p] = ins_nitems]
    /\ ipc' = [ipc EXCEPT ![p] = IF ins_nitems >= i_rowid[p] + 1 THEN "unlock"
                                 ELSE "max_cas"]
    /\ UNCHANGED <<ins_map, ins_base, ins_nitems, ins_row_lock, ins_log, i_rowid,
                   i_next_rowid, i_datum, i_returned, i_scan, i_calls>>
    /\ UNCHANGED nonInsVars

\* atomicMax32 with a plain store in the place of the compare-and-exchange
AtomicMaxStore(p) ==
    /\ ipc[p] = "max_cas"
    /\ ins_nitems' = i_rowid[p] + 1
    /\ ipc' = [ipc EXCEPT ![p] = "unlock"]
    /\ UNCHANGED <<ins_map, ins_base, ins_row_lock, ins_log, i_rowid, i_next_rowid,
                   i_datum, i_oldval, i_returned, i_scan, i_calls>>
    /\ UNCHANGED nonInsVars

\* __atomic_compare_exchange_n(ptr, &oldval, newval, ...): stores newval and
\* ends the loop if *ptr is still oldval, else the loop reads *ptr again
AtomicMaxCas(p) ==
    /\ ipc[p] = "max_cas"
    /\ IF ins_nitems = i_oldval[p]
       THEN /\ ins_nitems' = i_rowid[p] + 1
            /\ ipc' = [ipc EXCEPT ![p] = "unlock"]
       ELSE /\ ipc' = [ipc EXCEPT ![p] = "max_read"]
            /\ UNCHANGED ins_nitems
    /\ UNCHANGED <<ins_map, ins_base, ins_row_lock, ins_log, i_rowid, i_next_rowid,
                   i_datum, i_oldval, i_returned, i_scan, i_calls>>
    /\ UNCHANGED nonInsVars

\* gstoreFdwSpinUnlockBaseRow(gs_desc, rowid); return slot
InsertUnlock(p) ==
    /\ ipc[p] = "unlock"
    /\ ins_row_lock' = [ins_row_lock EXCEPT ![i_rowid[p]] = NoProc]
    /\ i_returned' = i_returned \cup {i_rowid[p]}
    /\ ipc' = [ipc EXCEPT ![p] = "idle"]
    /\ UNCHANGED <<ins_map, ins_base, ins_nitems, ins_log, i_rowid, i_next_rowid,
                   i_datum, i_oldval, i_scan, i_calls>>
    /\ UNCHANGED nonInsVars

\* GstoreBeginForeignScan of a backend: fdw_state->nitems = kds->nitems
InsBeginScan ==
    /\ i_scan = <<>>
    /\ i_scan' = <<ins_nitems>>
    /\ UNCHANGED <<ins_map, ins_base, ins_nitems, ins_row_lock, ins_log, ipc,
                   i_rowid, i_next_rowid, i_datum, i_oldval, i_returned, i_calls>>
    /\ UNCHANGED nonInsVars

\* the row-ids the sequential scan examines: GstoreIterateForeignScan fetches
\* read_pos until rowid >= fdw_state->nitems
ScanExamines == IF i_scan = <<>> THEN {} ELSE 0..(i_scan[1] - 1)

InsertNext ==
    \/ \E p \in Procs, d \in Values : InsertBegin(p, d)
    \/ \E p \in Procs : InsertAllocate(p)
    \/ \E p \in Procs : InsertLockRow(p)
    \/ \E p \in Procs : InsertCheck(p)
    \/ \E p \in Procs : InsertAppend(p)
    \/ \E p \in Procs : InsertAppendFails(p)
    \/ \E p \in Procs : InsertCatch(p)
    \/ \E p \in Procs : InsertStoreColumns(p)
    \/ \E p \in Procs : InsertStoreSysattr(p)
    \/ \E p \in Procs : AtomicMaxRead(p)
    \/ \E p \in Procs : AtomicMaxCas(p)
    \/ \E p \in Procs : InsertUnlock(p)
    \/ InsBeginScan

(***************************************************************************)
(* The specifications.  Each one runs one subsystem and leaves the         *)
(* variables of the others at their initial values.                        *)
(***************************************************************************)
\* the state after gstoreFdwCreateSharedState: a row-id map for one of the
\* table sizes (with the leaf bits of the rows the base file holds) and a REDO
\* log file that holds its header only; sub names the subsystem that runs,
\* the others keep one fixed configuration
StoreInit(sub) ==
    /\ rowid_map_lock = NoProc
    /\ apc = [p \in Procs |-> "idle"]
    /\ aarg = [p \in Procs |-> 0]
    /\ aret = [p \in Procs |-> UINT_MAX]
    /\ nops = 0
    /\ ains = [p \in Procs |-> "none"]
    /\ twice = {}
    /\ files = <<FreshFile("active")>>
    /\ lw_shared = [p \in Procs |-> 0]
    /\ lw_excl = NoProc
    /\ redo_mmap_revision = 0
    /\ redo_log_pos = RedoHeadSz
    /\ lpc = [p \in Procs |-> "idle"]
    /\ desc_mmap = [p \in Procs |-> NoFile]
    /\ desc_revision = [p \in Procs |-> UINT_MAX]
    /\ has_exclusive_lock = [p \in Procs |-> FALSE]
    /\ r_len = [p \in Procs |-> 0]
    /\ r_id = [p \in Procs |-> 0]
    /\ old_pos = [p \in Procs |-> 0]
    /\ tmp_file = [p \in Procs |-> NoFile]
    /\ nappends = [p \in Procs |-> 0]
    /\ appended = {}
    /\ switched = <<>>
    /\ insert_row_lock = [l \in InsertRowLocks |-> NoProc]
    /\ base_mmap \in (IF sub = "replay" THEN BaseFiles ELSE {[r \in Rows |-> EmptyRow]})
    /\ \E m \in (IF sub = "alloc" THEN RowIdMaps
                 ELSE {[nrooms |-> Nrooms1,
                        bitmap |-> {r \in Rows : ~base_mmap[r].sysnull},
                        held |-> {r \in Rows : ~base_mmap[r].sysnull}]}) :
          /\ nrooms = m.nrooms
          /\ bitmap = m.bitmap
          /\ held = m.held
    /\ redo \in (IF sub = "replay" THEN RedoLogs ELSE {<<>>})
    /\ redo_pos = 1
    /\ rpc = "idle"
    /\ runs = 0
    /\ after_first = [r \in Rows |-> EmptyRow]
    /\ applied = <<>>
    /\ raised = FALSE
    /\ sysattr \in (IF sub = "vis" THEN Sysattrs
                    ELSE {[xmin |-> InvalidTransactionId,
                           xmax |-> InvalidTransactionId, cid |-> 0]})
    /\ xstatus = [x \in Xids |-> IF sub = "insert" /\ x = CommittedXid
                                  THEN "committed" ELSE "inprogress"]
    /\ my_xid \in (IF sub = "vis" THEN Xids ELSE {FirstNormalTransactionId})
    /\ snapshot = [committed |-> {}, curcid |-> 0]
    /\ inserter = sysattr.xmin
    /\ deleter = sysattr.xmax
    /\ last = NoCheck
    /\ kds_nitems \in (IF sub = "scan" THEN 0..MaxItems ELSE {0})
    /\ row_visible \in (IF sub = "scan" THEN SUBSET ScanRows
                        ELSE IF sub = "lookup" THEN SUBSET HashRows ELSE {{}})
    /\ base_row_lock = [l \in ScanRows |-> "free"]
    /\ read_pos = 0
    /\ scan_nitems = kds_nitems
    /\ spc = "idle"
    /\ scan_rowid = 0
    /\ examined = <<>>
    /\ returned = <<>>
    /\ ended = FALSE
    /\ ncalls = 0
    /\ rescans = 0
    /\ hash_slots \in (IF sub = "lookup" THEN [0..(NSlots - 1) -> ChainPointers]
                       ELSE {[h \in 0..(NSlots - 1) |-> UINT_MAX]})
    /\ hash_rowmap \in (IF sub = "lookup" THEN [HashRows -> ChainPointers]
                        ELSE {[r \in HashRows |-> UINT_MAX]})
    /\ row_key \in (IF sub = "lookup" THEN [HashRows -> Keys \cup {NullKey}]
                    ELSE {[r \in HashRows |-> NullKey]})
    /\ hash_slot_lock = {}
    /\ kpc = "idle"
    /\ k_key = NullKey
    /\ k_rowid = UINT_MAX
    /\ k_touched = {}
    /\ pk_ret = <<>>
    /\ sstates = <<>>
    /\ gstore_sstate_slot = [h \in SstateSlots |-> <<>>]
    /\ gstore_sstate_lock = [h \in SstateSlots |-> 0]
    /\ gstore_desc_htab = [p \in Procs |-> [t \in Tables |-> 0]]
    /\ gpc = [p \in Procs |-> "idle"]
    /\ g_frel = [p \in Procs |-> 1]
    /\ opens = [p \in Procs |-> 0]
    /\ base_signature \in (IF sub = "open" THEN BaseSignatures
                           ELSE {GPUSTORE_BASEFILE_SIGNATURE})
    /\ open_log \in (IF sub = "open" THEN [OpenCells -> OpenRecords]
                     ELSE {[i \in OpenCells |-> [type |-> "END", length |-> 0]]})
    /\ opc = "closed"
    /\ basefile_is_sanity = TRUE
    /\ open_pos = 1
    /\ turns = 0
    /\ napplied = 0
    /\ open_log_pos = 1
    /\ mutated = FALSE
    /\ tupdesc \in (IF sub = "layout" THEN TupleDescs ELSE {<<>>})
    /\ max_num_rows \in (IF sub = "layout" THEN LayoutRooms ELSE {1})
    /\ primary_key \in (IF sub = "layout" THEN {-1, 1} ELSE {-1})
    /\ base_file = NoBaseFile
    /\ validate_ret = "none"
    /\ ins_base \in (IF sub = "insert" THEN [InsRows -> InsStoredRows]
                     ELSE {[r \in InsRows |-> InsZeroRow]})
    /\ ins_map \in (IF sub = "insert" THEN SUBSET InsRows ELSE {{}})
    /\ ins_nitems = InsItems(ins_base)
    /\ ins_row_lock = [r \in InsRows |-> NoProc]
    /\ ins_log = <<>>
    /\ ipc = [p \in Procs |-> "idle"]
    /\ i_rowid = [p \in Procs |-> 0]
    /\ i_next_rowid = [p \in Procs |-> 0]
    /\ i_datum = [p \in Procs |-> 0]
    /\ i_oldval = [p \in Procs |-> 0]
    /\ i_returned = {}
    /\ i_scan = <<>>
    /\ i_calls = 0

SpecAlloc == StoreInit("alloc") /\ [][AllocNext]_vars

SpecLog == StoreInit("log") /\ [][LogNext]_vars

SpecReplay == StoreInit("replay") /\ [][ReplayNext]_vars

SpecVis == StoreInit("vis") /\ [][VisNext]_vars

SpecScan == StoreInit("scan") /\ [][ScanNext]_vars

SpecLookup == StoreInit("lookup") /\ [][LookupNext]_vars

SpecRegistry == StoreInit("registry") /\ [][RegistryNext]_vars

SpecOpen == StoreInit("open") /\ [][OpenNext]_vars

SpecLayout == StoreInit("layout") /\ [][LayoutNext]_vars

SpecInsert == StoreInit("insert") /\ [][InsertNext]_vars

\* the scheduler runs every process that can take a step, and a process that
\* waits for redo_mmap_lock gets it if the lock is free again and again; the
\* calls of the host and the failures of the file system are not forced
FairSpecLog ==
    /\ SpecLog
    /\ \A p \in Procs :
          /\ WF_vars(LogStep(p))
          /\ SF_vars(AppendLockShared(p))
          /\ SF_vars(AppendLockExclusive(p))

(***************************************************************************)
(* C1: no row-id is returned by two allocate calls unless a release of it  *)
(* that returned success happened between them.                            *)
(***************************************************************************)
C1_NoDoubleAllocation == twice = {}

(***************************************************************************)
(* C2: any two appends that completed against the same log file were       *)
(* assigned disjoint byte ranges [old_pos, old_pos + length), and each     *)
(* wrote its record only inside its own range.                             *)
(***************************************************************************)
RangeOf(a) == {i \in FileCells : a.pos <= i /\ i < a.pos + a.len}

C2_DisjointRanges ==
    \A a \in appended :
        /\ \A b \in appended :
              (a.id # b.id /\ a.file = b.file) => RangeOf(a) \cap RangeOf(b) = {}
        /\ \A f \in 1..Len(files) : \A i \in FileCells :
              files[f].cells[i] = a.id => (f = a.file /\ i \in RangeOf(a))

(***************************************************************************)
(* C5: no record is lost or duplicated: every append that returned has its *)
(* record exactly once, intact at its reserved range, in the active log    *)
(* file or in a retired one, and no rotation discards or overwrites bytes  *)
(* of a retired file.                                                      *)
(***************************************************************************)
C5_NoRecordLost ==
    \A a \in appended :
        /\ files[a.file].st \in {"active", "retired"}
        /\ \A i \in RangeOf(a) : files[a.file].cells[i] = a.id
        /\ \A f \in 1..Len(files) : \A i \in FileCells :
              files[f].cells[i] = a.id => (f = a.file /\ i \in RangeOf(a))

(***************************************************************************)
(* C3: an overflow found by any number of appenders gets exactly one       *)
(* rotation: a rotation is started only by the holder of the exclusive     *)
(* lock whose record does not fit at the position it re-read, and an       *)
(* appender that found the overflow and waits for the exclusive lock       *)
(* sees a rotation performed.                                              *)
(***************************************************************************)
MaxRotations == NProcs * MaxAppends

RotationStarts(p) == lpc[p] = "switch" /\ lpc'[p] = "rename_old"

C3_ExactlyOneRotation ==
    /\ [][\A p \in Procs : RotationStarts(p) =>
              (lw_excl = p /\ redo_log_pos + r_len[p] > RedoLogLimit)]_vars
    /\ \A p \in Procs : \A k \in 0..MaxRotations :
          (lpc[p] = "lock_exclusive" /\ Len(switched) = k) ~> (Len(switched) > k)

(***************************************************************************)
(* C4: under fair scheduling an appender that waits for redo_mmap_lock,    *)
(* shared because a rotation is running or exclusive because its record    *)
(* overflows the log, eventually leaves the append call.                   *)
(***************************************************************************)
C4_EscalationCompletes ==
    \A p \in Procs :
        (lpc[p] \in {"lock_shared", "lock_exclusive"}) ~> (lpc[p] \in {"ready", "idle"})

(***************************************************************************)
(* C6: replay is idempotent: after the log segment has been replayed twice *)
(* from checkpoint_offset the base file (column values, null flags and     *)
(* system fields) is what the first replay left.                           *)
(***************************************************************************)
C6_ReplayIdempotent ==
    (runs = MaxReplays /\ rpc = "idle") => base_mmap = after_first

(***************************************************************************)
(* C7: a read check never returns true for a row whose inserter is another *)
(* transaction that is still in progress, whatever xmax, cid and the       *)
(* caller's command id are.                                                *)
(***************************************************************************)
InsertInProgress ==
    /\ last.op = "read"
    /\ last.pre.xmin \in Xids
    /\ last.pre.xmin # my_xid
    /\ last.status[last.pre.xmin] = "inprogress"

C7_NoReadOfInProgressInsert == InsertInProgress => last.ret = FALSE

C7_Witness ==
    /\ InsertInProgress
    /\ last.pre.xmax = InvalidTransactionId
    /\ last.ret = FALSE

\* the inserter of the row had committed when the last check ran
InserterCommitted ==
    \/ last.pre.xmin = FrozenTransactionId
    \/ /\ last.pre.xmin \in Xids
       /\ last.pre.xmin # my_xid
       /\ last.status[last.pre.xmin] = "committed"

(***************************************************************************)
(* C8: a row whose inserter committed and whose deleter aborted is visible *)
(* to every read made after the abort, the first one (which finds the      *)
(* deleter's id in xmax and resets it) included.                           *)
(***************************************************************************)
C8_AbortedDeleteVisible ==
    ( /\ last.op = "read"
      /\ InserterCommitted
      /\ deleter \in Xids
      /\ deleter # my_xid
      /\ last.status[deleter] = "aborted"
      /\ last.pre.xmax \in {deleter, InvalidTransactionId} )
    => last.ret = TRUE

(***************************************************************************)
(* C9: a read is decided against the reader's snapshot: a row stored by    *)
(* another transaction A is not visible when A had not committed at the    *)
(* time the snapshot was taken, and a row that was never deleted is        *)
(* visible when A had committed by then.                                   *)
(***************************************************************************)
C9_SnapshotDecides ==
    (last.op = "read" /\ inserter \in Xids /\ inserter # my_xid) =>
        /\ inserter \notin last.committed => last.ret = FALSE
        /\ (inserter \in last.committed /\ deleter = InvalidTransactionId)
               => last.ret = TRUE

(***************************************************************************)
(* C10: a write check returns true for a row with a committed inserter and *)
(* a deleter only if the deleter committed and its id strictly precedes    *)
(* oldestXmin, whether or not a read froze xmax before.                    *)
(***************************************************************************)
C10_WriteOnlyIfDeadToAll ==
    ( /\ last.op = "write"
      /\ last.ret = TRUE
      /\ InserterCommitted
      /\ deleter \in Xids )
    => /\ last.status[deleter] = "committed"
       /\ TransactionIdPrecedes(deleter, last.oldest)

(***************************************************************************)
(* C11: on a map of any number of levels and for every min_rowid below     *)
(* nrooms, an allocate that succeeds returns the smallest row-id at or     *)
(* above min_rowid whose leaf bit was clear, and sets that leaf bit and no *)
(* other.                                                                  *)
(***************************************************************************)
AllocateReturns(p) == apc[p] = "alloc_run" /\ apc'[p] = "alloc_unlock"

C11_SmallestFreeRowId ==
    [][\A p \in Procs :
          (AllocateReturns(p) /\ aret'[p] # UINT_MAX) =>
              LET A == LeafRowIds(bitmap, nrooms)
              IN  /\ aret'[p] >= aarg[p]
                  /\ aret'[p] \notin A
                  /\ \A q \in aarg[p]..(aret'[p] - 1) : q \in A
                  /\ LeafRowIds(bitmap', nrooms) = A \cup {aret'[p]}]_vars

(***************************************************************************)
(* C12: allocate reports that there is no room only when no row-id from    *)
(* min_rowid up to nrooms - 1 has a clear leaf bit; a free slot of a later *)
(* 256-slot block that lies below min_rowid's position in its own block    *)
(* counts as free.                                                         *)
(***************************************************************************)
C12_NoRoomOnlyWhenFull ==
    [][\A p \in Procs :
          (AllocateReturns(p) /\ aret'[p] = UINT_MAX) =>
              Cardinality({r \in LeafRowIds(bitmap, nrooms) :
                              aarg[p] <= r /\ r < nrooms}) = nrooms - aarg[p]]_vars

(***************************************************************************)
(* C13: allocate never returns a row-id outside 0 .. nrooms - 1. With      *)
(* min_rowid >= nrooms, or with every row-id below nrooms allocated, it    *)
(* returns UINT_MAX and sets no leaf bit, and the insert that called it    *)
(* raises the no-room error before it locks any row; nrooms need not be a  *)
(* multiple of 256.                                                        *)
(***************************************************************************)
AllInRangeAllocated ==
    Cardinality({r \in LeafRowIds(bitmap, nrooms) : r < nrooms}) = nrooms

C13_NeverOutOfRange ==
    /\ [](\A p \in Procs :
             ains[p] # "none" =>
                 /\ aret[p] = UINT_MAX \/ (0 <= aret[p] /\ aret[p] < nrooms)
                 /\ aarg[p] >= nrooms => aret[p] = UINT_MAX
                 /\ aret[p] = UINT_MAX => ains[p] = "no_room")
    /\ [][/\ (apc' = apc /\ nops' # nops) => bitmap' = bitmap
          /\ \A p \in Procs :
                AllocateReturns(p) =>
                    /\ AllInRangeAllocated => aret'[p] = UINT_MAX
                    /\ aret'[p] = UINT_MAX =>
                           LeafRowIds(bitmap', nrooms) = LeafRowIds(bitmap, nrooms)]_vars

\* on a full map whose nrooms is no multiple of 256, one insert asked from a
\* min_rowid below nrooms and one from a min_rowid past it, and both raised
\* the no-room error
C13_Witness ==
    /\ nrooms % 256 # 0
    /\ AllInRangeAllocated
    /\ \E p, q \in Procs :
          /\ aarg[p] < nrooms /\ ains[p] = "no_room"
          /\ aarg[q] >= nrooms /\ ains[q] = "no_room"

(***************************************************************************)
(* C14: release of an allocated row-id clears its leaf bit and the summary *)
(* bit of each of its ancestors and returns true; release of a row-id      *)
(* whose leaf bit is clear already, or of a row-id >= nrooms, returns      *)
(* false and changes no word of the map.                                   *)
(***************************************************************************)
ReleaseReturns(p) == apc[p] = "release_run" /\ apc'[p] = "release_unlock"

\* number of levels of a map of n rooms, and the first word of level d
MapLevels(n) == IF n <= 256 THEN 1 ELSE IF n <= 65536 THEN 2
                ELSE IF n <= 16777216 THEN 3 ELSE 4

LevelWord(d) == CASE d = 0 -> 0 [] d = 1 -> 4 [] d = 2 -> 4 + 1024
                  [] OTHER -> 4 + 1024 + 262144

RECURSIVE Pow256(_)
Pow256(e) == IF e = 0 THEN 1 ELSE 256 * Pow256(e - 1)

\* the leaf bit of row-id r and the bit that stands for r on every level above
PathBits(n, r) ==
    {64 * LevelWord(d) + (r \div Pow256(MapLevels(n) - 1 - d)) :
        d \in 0..(MapLevels(n) - 1)}

C14_ReleaseFrame ==
    [][\A p \in Procs :
          ReleaseReturns(p) =>
              /\ aarg[p] \in held =>
                     (aret'[p] = 1 /\ bitmap' = bitmap \ PathBits(nrooms, aarg[p]))
              /\ (aarg[p] >= nrooms \/ aarg[p] \notin LeafRowIds(bitmap, nrooms)) =>
                     (aret'[p] = 0 /\ bitmap' = bitmap)]_vars

(***************************************************************************)
(* C15: the replay walks the records from checkpoint_offset on, applies    *)
(* every INSERT, UPDATE and DELETE record in the order of the log, skips   *)
(* every COMMIT record, and ends without an error at the first record that *)
(* carries none of the four tags; no record behind that one is applied.    *)
(***************************************************************************)
RowLogTypes == {"INSERT", "UPDATE", "DELETE"}

\* the first record with no known tag, or the end of the mapped log
FirstUnknown ==
    IF \E i \in 1..Len(redo) : redo[i].type = "END"
    THEN CHOOSE i \in 1..Len(redo) :
             redo[i].type = "END" /\ \A j \in 1..(i - 1) : redo[j].type # "END"
    ELSE Len(redo) + 1

\* the INSERT, UPDATE and DELETE records before index n, in log order
RECURSIVE RowLogsBefore(_)
RowLogsBefore(n) ==
    IF n <= 1 THEN <<>>
    ELSE IF redo[n - 1].type \in RowLogTypes
         THEN Append(RowLogsBefore(n - 1), n - 1)
         ELSE RowLogsBefore(n - 1)

C16_RowIdMapRebuilt ==
    (rpc = "idle" /\ runs > 0 /\ ~raised) =>
        \A r \in Rows : (r \in LeafRowIds(bitmap, nrooms)) <=> ~base_mmap[r].sysnull

RECURSIVE FirstVisibleMatch(_, _, _)
FirstVisibleMatch(rowid, key, fuel) ==
    IF fuel = 0 \/ rowid \notin HashRows THEN UINT_MAX
    ELSE IF row_key[rowid] = key /\ rowid \in row_visible THEN rowid
    ELSE FirstVisibleMatch(hash_rowmap[rowid], key, fuel - 1)

C18_LookupFirstVisible ==
    pk_ret # <<>> =>
        pk_ret[2] = FirstVisibleMatch(hash_slots[HashProc(pk_ret[1]) % NSlots],
                                      pk_ret[1], HashRooms)

(***************************************************************************)
(* C19: during a hash lookup a chain pointer (the head of the bucket or a  *)
(* next field) that is >= the capacity of the index is never used to read  *)
(* a row or a next field: the lookup ends with NotFound, releases the lock *)
(* of the bucket, and modifies nothing.  Here: the indexes the lookup read *)
(* with are all below the capacity; the step that meets such a pointer     *)
(* sets the result to UINT_MAX and leaves the loop without a read; the     *)
(* return keeps the result and frees the lock; no step changes the index   *)
(* or the key column.                                                      *)
(***************************************************************************)
OutOfRangePointer(rowid) == rowid # UINT_MAX /\ rowid \notin HashRows

C19_OutOfRangeNotFollowed ==
    /\ [](k_touched \subseteq HashRows)
    /\ [](kpc \in {"idle", "done"} => hash_slot_lock = {})
    /\ [][/\ (kpc = "walk" /\ OutOfRangePointer(k_rowid) /\ <<kpc, k_rowid>>' # <<kpc, k_rowid>>)
             => (kpc' = "spin" /\ k_rowid' = UINT_MAX /\ k_touched' = k_touched)
          /\ (kpc = "spin" /\ kpc' = "done") => k_rowid' = k_rowid
          /\ <<hash_slots, hash_rowmap, row_key, row_visible>>'
                 = <<hash_slots, hash_rowmap, row_key, row_visible>>]_vars

\* a lookup that read row 0, found another key there and an out-of-range
\* next field, and returned NotFound with the lock free
C19_Witness ==
    /\ kpc = "done"
    /\ k_rowid = UINT_MAX
    /\ hash_slots[HashProc(k_key) % NSlots] = 0
    /\ row_key[0] # k_key
    /\ OutOfRangePointer(hash_rowmap[0])
    /\ k_touched = {0}
    /\ hash_slot_lock = {}

(***************************************************************************)
(* C20: the registry holds at most one shared state per table identity     *)
(* (database, table): for every interleaving of opens of the same table by *)
(* several processes the first open creates the shared state, every later  *)
(* open finds it, and every returned handle references that same shared    *)
(* state.  Here: the chains never hold two shared states made for one      *)
(* table, and two entries of the processes' tables for one table hold the  *)
(* same shared state once their calls have returned.                       *)
(***************************************************************************)
ChainedFor(t) ==
    {i \in 1..Len(sstates) :
        /\ sstates[i].frel = t
        /\ \E h \in SstateSlots :
               \E k \in 1..Len(gstore_sstate_slot[h]) : gstore_sstate_slot[h][k] = i}

Returned(p, t) ==
    /\ gstore_desc_htab[p][t] # 0
    /\ ~(gpc[p] # "idle" /\ g_frel[p] = t)

C20_OneSharedStatePerTable ==
    /\ \A t \in Tables : Cardinality(ChainedFor(t)) <= 1
    /\ \A p, q \in Procs, t \in Tables :
           Returned(p, t) /\ Returned(q, t)
               => gstore_desc_htab[p][t] = gstore_desc_htab[q][t]

(***************************************************************************)
(* C21: a transaction sees its own earlier writes: a row stored by the     *)
(* reading transaction at command id c and not deleted is visible to a     *)
(* read at command id k exactly when c < k.                                *)
(***************************************************************************)
OwnUndeletedRow ==
    /\ last.op = "read"
    /\ last.pre.xmin = my_xid
    /\ last.pre.xmax = InvalidTransactionId

C21_OwnWritesVisible == OwnUndeletedRow => (last.ret = (last.pre.cid < last.curcid))

\* the row was stored by this transaction's insert at command 0 and is read
\* by its command 1
C21_Witness ==
    /\ OwnUndeletedRow
    /\ inserter = my_xid
    /\ deleter = InvalidTransactionId
    /\ last.pre.cid = 0
    /\ last.curcid = 1
    /\ last.ret = TRUE

(***************************************************************************)
(* C22: the log write position, the watermark of the device buffer         *)
(* synchronizer, is monotonic: over any sequence of appends and rotations  *)
(* its value never decreases.                                              *)
(***************************************************************************)
C22_LogPosMonotonic == [][redo_log_pos' >= redo_log_pos]_vars

(***************************************************************************)
(* C23: a rotation replaces the logical log path atomically: in every      *)
(* state during a rotation, and after a rotation that failed at any step,  *)
(* the path names a complete log file, the old one or the new one.         *)
(***************************************************************************)
C23_PathAlwaysNamesLog == PathFile(files) # NoFile

(***************************************************************************)
(* C24: after any sequence of allocate and release calls, on a map of any  *)
(* number of levels, a summary bit that is set at a level above the leaves *)
(* implies that no row-id below nrooms beneath it has a clear leaf bit:    *)
(* allocate sets a summary bit only for a block that is full or lies past  *)
(* the capacity.  The levels and the leaf bits are the ones of             *)
(* gstoreFdwRowIdMapSize and __gstoreFdwReleaseRowId.                      *)
(***************************************************************************)
\* the row-ids below nrooms that the bit at word offset b of level d covers
Beneath(d, b) ==
    LET width == Pow256(MapLevels(nrooms) - 1 - d)
        first == (b - 64 * LevelWord(d)) * width
    IN  {r \in LeafRowIds(bitmap, nrooms) : first <= r /\ r < first + width /\ r < nrooms}

CoveredRooms(d, b) ==
    LET width == Pow256(MapLevels(nrooms) - 1 - d)
        first == (b - 64 * LevelWord(d)) * width
    IN  IF first >= nrooms THEN 0
        ELSE IF first + width > nrooms THEN nrooms - first ELSE width

C24_SummaryMeansFull ==
    \A d \in 0..(MapLevels(nrooms) - 2) :
        \A b \in {c \in bitmap : 64 * LevelWord(d) <= c /\ c < 64 * LevelWord(d + 1)} :
            Cardinality(Beneath(d, b)) = CoveredRooms(d, b)

(***************************************************************************)
(* C25: in every state reachable by appends and rotations the write        *)
(* position lies between the end of the header and redo_log_limit, and     *)
(* every reserved record range lies within [end of header, redo_log_limit] *)
(* of the file it is written to (every record is at most redo_log_limit    *)
(* minus the header long: MaxRecLen <= RedoLogLimit - RedoHeadSz).         *)
(***************************************************************************)
InLogBody(pos, len) == RedoHeadSz <= pos /\ pos + len <= RedoLogLimit

C25_LogPosInBounds ==
    /\ InLogBody(redo_log_pos, 0)
    /\ \A p \in Procs :
           lpc[p] \in {"memcpy", "unlock"} =>
               InLogBody(old_pos[p], r_len[p]) /\ desc_mmap[p] # NoFile
    /\ \A a \in appended : InLogBody(a.pos, a.len) /\ a.file # NoFile

\* after a rotation, a record was written that ends at the limit, and the
\* write position stands at the limit
C25_Witness ==
    /\ Len(switched) > 0
    /\ redo_log_pos = RedoLogLimit
    /\ \E a \in appended :
           a.file = switched[1].file /\ a.pos + a.len = RedoLogLimit

(***************************************************************************)
(* C26: right after a successful rotation, and after the first creation of *)
(* a log file, the checkpoint_offset in the header of the active log is    *)
(* the end of the header and the shared write position is the same offset: *)
(* the new log holds no pending record.                                    *)
(***************************************************************************)
\* the log at the logical path is new: its header says 'nothing pending',
\* no record is in it, and pos is the end of its header
NewLogAt(fs, pos) ==
    /\ PathFile(fs) # NoFile
    /\ fs[PathFile(fs)].checkpoint_offset = RedoHeadSz
    /\ \A i \in FileCells : fs[PathFile(fs)].cells[i] = 0
    /\ pos = fs[PathFile(fs)].checkpoint_offset

RotationEnds(p) == lpc[p] = "publish" /\ lpc'[p] = "retry"

C26_NewLogNothingPending ==
    /\ NewLogAt(files, redo_log_pos)
    /\ [][\A p \in Procs : RotationEnds(p) => NewLogAt(files', redo_log_pos')]_vars

\* a rotation has ended with the old log full, and the process that made it
\* is back at the retry label on the new log
C26_Witness ==
    /\ Len(switched) > 0
    /\ switched[Len(switched)].pos = RedoLogLimit
    /\ PathFile(files) = switched[Len(switched)].file
    /\ \E p \in Procs : lpc[p] = "retry" /\ has_exclusive_lock[p]
    /\ NewLogAt(files, redo_log_pos)

(***************************************************************************)
(* C27: if a rotation fails at any step, the shared revision of the log    *)
(* mapping and the shared write position keep the values they had before   *)
(* the rotation started; they are changed only after both renames have     *)
(* succeeded.  Here: no step taken while a process is between the start of *)
(* __gstoreFdwSwitchRedoLog and the success of its second rename changes   *)
(* either of them, and the revision changes in no other step than the one  *)
(* that ends a rotation.                                                   *)
(***************************************************************************)
InRotation(p) == lpc[p] \in {"switch", "rename_old", "rename_new"}

RotationFails(p) == InRotation(p) /\ lpc'[p] = "idle"

C27_FailedRotationKeepsCounters ==
    [][/\ (\E p \in Procs : InRotation(p))
             => <<redo_mmap_revision, redo_log_pos>>' = <<redo_mmap_revision, redo_log_pos>>
       /\ redo_mmap_revision' # redo_mmap_revision => \E p \in Procs : RotationEnds(p)]_vars

\* a rotation failed at its second rename: the new file is unlinked, and the
\* write position is still the one that did not leave room for the record
C27_Witness ==
    \E p \in Procs :
        /\ lpc[p] = "idle"
        /\ nappends[p] > 0
        /\ \E f \in 1..Len(files) : files[f].st = "unlinked"
        /\ PathFile(files) = NoFile
        /\ redo_log_pos + r_len[p] > RedoLogLimit
        /\ switched = <<>>

(***************************************************************************)
(* C28: every lock is released on every exit path: when open (descriptor   *)
(* lookup and setup), append or insert has returned, normally or by an     *)
(* error, the calling process holds no lock; here redo_mmap_lock and the   *)
(* row spinlock, for a process that is outside of every call.              *)
(***************************************************************************)
OutsideCalls(p) == lpc[p] \in {"idle", "ready"}

HoldsRedoMmapLock(p) == lw_shared[p] > 0 \/ lw_excl = p

HoldsRowLock(p) == \E l \in InsertRowLocks : insert_row_lock[l] = p

C28_NoLockHeldAfterReturn ==
    \A p \in Procs : OutsideCalls(p) => ~HoldsRedoMmapLock(p) /\ ~HoldsRowLock(p)

(***************************************************************************)
(* C29: row, hash-bucket and allocator spinlocks are held across O(1)      *)
(* memory operations only: no process holds a row spinlock while it waits  *)
(* for redo_mmap_lock, nor while a log rotation creates and renames files. *)
(***************************************************************************)
WaitsForRedoMmapLock(p) == lpc[p] \in {"lock_shared", "lock_exclusive"}

C29_RowLockOnlyAcrossMemoryOps ==
    \A p \in Procs : HoldsRowLock(p) => ~WaitsForRedoMmapLock(p) /\ ~InRotation(p)

(***************************************************************************)
(* C30: the freezing done by the read check is a pure optimisation: the    *)
(* check returns the same boolean on the row as its writes to xmin/xmax    *)
(* left it as on the row without them, so two consecutive reads of the row *)
(* with no transaction status change (and no other check of the row) in    *)
(* between return the same result.                                         *)
(***************************************************************************)
ConsecutiveReads ==
    /\ last.op = "read"
    /\ last.status = xstatus
    /\ last.curcid = snapshot.curcid
    /\ xstatus' = xstatus
    /\ snapshot' = snapshot
    /\ last'.op = "read"
    /\ last'.pre = sysattr

C30_FreezingIsPureOptimisation ==
    [][ConsecutiveReads => last'.ret = last.ret]_vars

(***************************************************************************)
(* C37: no appender writes a record through a mapping of a retired log     *)
(* file: whenever an appender copies its record into the log it has        *)
(* mapped, that mapping is of the file that is the active log, whatever    *)
(* rotations other processes have made since it mapped the log.            *)
(***************************************************************************)
CopiesRecord(p) == lpc[p] = "memcpy" /\ lpc'[p] = "unlock"

C37_NoWriteThroughRetiredMapping ==
    [][\A p \in Procs : CopiesRecord(p) => desc_mmap[p] = PathFile(files)]_vars

(***************************************************************************)
(* C36: an insert never overwrites a live row: the row an insert stores    *)
(* into is one for which the write check returned true, and the write      *)
(* check does not return true for a row whose inserter is committed or in  *)
(* progress and whose xmax is invalid or names a deleter that is still in  *)
(* progress.                                                               *)
(***************************************************************************)
LiveRowAt(sa, status) ==
    /\ \/ sa.xmin = FrozenTransactionId
       \/ sa.xmin \in Xids /\ status[sa.xmin] \in {"committed", "inprogress"}
    /\ \/ sa.xmax = InvalidTransactionId
       \/ sa.xmax \in Xids /\ status[sa.xmax] = "inprogress"

C36_InsertNeverOverwritesLiveRow ==
    /\ last.op = "write" /\ LiveRowAt(last.pre, last.status) => last.ret = FALSE
    /\ last.op = "insert" => ~LiveRowAt(last.pre, last.status)

\* the write check refused a row stored by a committed transaction that a
\* running transaction has deleted
C36_Witness ==
    /\ last.op = "write"
    /\ last.pre.xmin \in Xids
    /\ last.status[last.pre.xmin] = "committed"
    /\ last.pre.xmax \in Xids
    /\ last.status[last.pre.xmax] = "inprogress"
    /\ last.ret = FALSE
    /\ sysattr.xmin = FrozenTransactionId

(***************************************************************************)
(* C35: replaying an UPDATE record that moves a row from the old row-id O  *)
(* to the new row-id N under transaction X leaves the old version marked   *)
(* deleted by X (O.xmax = X) and the new version marked inserted by X      *)
(* (N.xmin = X), the column of N copied from O when it is not updated and  *)
(* taken from the record when it is.                                       *)
(***************************************************************************)
ReplaysUpdate ==
    /\ rpc = "loop"
    /\ redo_pos <= Len(redo)
    /\ redo[redo_pos].type = "UPDATE"
    /\ applied' # applied
    /\ redo[redo_pos].oldid # redo[redo_pos].rowid
    /\ ~base_mmap[redo[redo_pos].oldid].sysnull

C35_UpdateReplayMarksVersions ==
    [][ReplaysUpdate =>
          LET r_log == redo[redo_pos]
          IN  /\ base_mmap'[r_log.oldid].xmax = r_log.xid
              /\ ~base_mmap'[r_log.rowid].sysnull
              /\ base_mmap'[r_log.rowid].xmin = r_log.xid
              /\ FetchColumn(base_mmap', r_log.rowid) =
                     IF r_log.update_mask THEN FetchColumn(base_mmap, r_log.oldid)
                     ELSE r_log.datum]_vars

(***************************************************************************)
(* C32: opening a store whose base file carries the clean signature        *)
(* replays nothing and leaves the base file unchanged; it walks from       *)
(* checkpoint_offset over the records with known tags and sets the write   *)
(* position to the place where the walk met no known tag, raising no       *)
(* error, so that the appends that follow overwrite no record before it.   *)
(***************************************************************************)
RECURSIVE WalkEnd(_, _, _)
WalkEnd(log, pos, fuel) ==
    IF fuel = 0 \/ pos > OpenLogCells THEN pos
    ELSE IF log[pos].type \notin KnownTags THEN pos
    ELSE WalkEnd(log, pos + log[pos].length, fuel - 1)

CleanOpenEnds == opc = "seek" /\ opc' = "open"

C32_CleanOpenSeeksOnly ==
    /\ [][CleanOpenEnds =>
             /\ napplied' = 0
             /\ open_log' = open_log
             /\ open_log_pos' = WalkEnd(open_log, 1, OpenLogCells + 1)]_vars
    /\ [][(opc = "open" /\ opc' = "open") =>
             /\ open_log_pos' >= open_log_pos
             /\ \A i \in OpenCells :
                   i < open_log_pos => open_log'[i] = open_log[i]]_vars

\* a clean open walked over two records, and an append followed it
C32_Witness ==
    /\ opc = "open"
    /\ basefile_is_sanity
    /\ turns = 2
    /\ napplied = 0
    /\ open_log_pos = OpenLogCells + 1
    /\ open_log[OpenLogCells] = [type |-> "INSERT", length |-> 1]
    /\ open_log[1].type = "UPDATE"

(***************************************************************************)
(* C33: a store that was opened and mutated and then stopped without a     *)
(* clean shutdown is detected as dirty at the next open: while the store   *)
(* is open the header of the base file carries the not-clean signature, so *)
(* the open after a crash takes the replay path, not the clean path.       *)
(***************************************************************************)
C33_CrashDetectedAsDirty ==
    /\ [](opc = "open" => base_signature = GPUSTORE_BASEFILE_MAPPED_SIGNATURE)
    /\ [][(opc = "closed" /\ opc' = "validated" /\ mutated)
             => ~basefile_is_sanity']_vars

(***************************************************************************)
(* C34: replay terminates for every log content: whatever follows          *)
(* checkpoint_offset, a record with a known tag and a length of zero or a  *)
(* length that reaches past the mapped file included, every turn of the    *)
(* loop advances the position, and no record is read that reaches beyond   *)
(* the mapped size of the log.                                             *)
(***************************************************************************)
LoopTurn == opc \in {"replay", "seek"} /\ turns' = turns + 1

C34_ReplayAdvancesInsideLog ==
    [][LoopTurn =>
          /\ open_pos' > open_pos
          /\ (opc = "replay" /\ open_log[open_pos].type \in RowTags)
                => open_pos + open_log[open_pos].length - 1 <= OpenLogCells]_vars

\* C39: a base file laid out by create passes the validation of the next open
\* against the same columns, the same capacity and the same primary key,
\* whatever mix of nullable / not-null, fixed-width / variable-length columns
\* the relation has
C39_CreateThenValidate ==
    validate_ret # "none" => validate_ret = "ok"

\* a step of an insert that changes a field of a row in the base file
InsWritesRow(r) == ins_base'[r] # ins_base[r]

\* the INSERT record of process p for row r is in the log
InsLogged(p, r) ==
    \E i \in 1..Len(ins_log) : ins_log[i] = [rowid |-> r, xid |-> InsXid(p)]

\* C31: an insert is write-ahead.  Every step of an insert that writes a field
\* of a row in the base file is taken by a backend that allocated the row-id
\* (its leaf bit is set), holds the row lock, and has appended its INSERT
\* record for the row already; the row an insert returns from holds the
\* inserted datum, xmin = the inserter's xid, xmax = invalid and the current
\* command id when its lock is released; and an insert whose append fails
\* has written no field of the row
C31_InsertIsWriteAhead ==
    /\ [][\A r \in InsRows : InsWritesRow(r) =>
            \E p \in Procs : /\ i_rowid[p] = r
                             /\ r \in LeafRowIds(ins_map, InsRooms)
                             /\ ins_row_lock[r] = p
                             /\ InsLogged(p, r)]_vars
    /\ [][\A p \in Procs : (ipc[p] = "unlock" /\ ipc'[p] = "idle") =>
            ins_base[i_rowid[p]] = [val |-> i_datum[p], xmin |-> InsXid(p),
                                    xmax |-> InvalidTransactionId,
                                    cid |-> InsCommandId]]_vars

\* C38: nitems only grows, never exceeds the capacity, and covers every row
\* whose insert has returned, so that a scan that begins afterwards examines
\* the row
C38_NitemsBoundsWrittenRows ==
    /\ [][ins_nitems' >= ins_nitems]_vars
    /\ [](ins_nitems <= InsRooms)
    /\ [](\A r \in i_returned : ins_nitems >= r + 1)
    /\ [][(i_scan = <<>> /\ i_scan' # <<>>) => i_returned \subseteq ScanExamines']_vars

\* two inserts ran at the same time, both returned, a compare-and-exchange
\* failed on the way (the loser's oldval is behind), and a scan began
C38_Witness ==
    /\ Cardinality(i_returned) = 2
    /\ \A p \in Procs : ipc[p] = "idle" /\ i_rowid[p] \in i_returned
    /\ \E p \in Procs : i_oldval[p] + 1 < ins_nitems /\ i_oldval[p] < i_rowid[p]
    /\ i_scan = <<ins_nitems>>

\* C40: when an insert that has allocated a row-id raises an error, the leaf
\* bit of the row-id is clear again when the error leaves the insert
C40_FailedInsertReleasesRowId ==
    [][\A p \in Procs : (ipc[p] = "catch" /\ ipc'[p] = "idle") =>
          i_rowid[p] \notin LeafRowIds(ins_map', InsRooms)]_vars

====
